---- MODULE Spec2Model ----
(***************************************************************************)
(* Model of the data-export-analysis skill of openclaw: the cleaner and    *)
(* merger (transformers/cleaner.js, transformers/merger.js), the           *)
(* calculator (transformers/calculator.js), the analyzers (trends.js,      *)
(* anomaly.js, comparison.js), the exporters, the source connectors and    *)
(* the CLI driver (scripts/exporter.js).                                   *)
(*                                                                         *)
(* A dataset is a JavaScript array of records; a record is an object, kept *)
(* here as the sequence of its own properties in insertion order.  The     *)
(* caller owns one array (data) and, for a join, a second one (right).  A  *)
(* transform returns either a freshly allocated array (fresh) or the very  *)
(* array it was given; retRef says which.  An analyzer, an exporter, a     *)
(* connector and a run of the CLI return an object or throw (returned).    *)
(***************************************************************************)
EXTENDS Integers, Sequences, FiniteSets, TLC

VARIABLES
    data,     \* contents of the caller's dataset array
    orig,     \* the records the caller put into that array (history)
    right,    \* contents of the caller's second array (joins)
    call,     \* the last transform call: its name and arguments
    fresh,    \* contents of the array allocated by the last call
    retRef,   \* "none" | "data" (the input array itself) | "fresh" | "threw"
              \* | "exited" (the process ended)
    owned,    \* the records the last call returned, as returned (history)
    returned  \* what the last call returned besides records: an analysis
              \* result, an export receipt, or the error it threw

vars == <<data, orig, right, call, fresh, retRef, owned, returned>>

\* Longest dataset drawn as an input of the cleaner, group-by and calculator.
MaxLen == 3
\* Longest dataset on either side of a join.
MaxSide == 2
\* Longest dataset handed to applyCalculations, and longest calculation list.
MaxRows == 2
MaxCalcs == 2
\* Longest dataset handed to the anomaly detectors.
MaxPoints == 5
\* Longest command line handed to the CLI.
MaxArgs == 3
\* Longest list of emails handed to batchCategorizeEmails.
MaxEmails == 2
\* Longest body of a reply template, in pieces.
MaxPieces == 3
\* Most commands of the application tracker in a run.
MaxCommands == 4

-----------------------------------------------------------------------------
(* JavaScript values.  A number is the rational n/d in lowest terms.       *)

Num(n) == [t |-> "num", n |-> n, d |-> 1, s |-> ""]
Str(s) == [t |-> "str", n |-> 0, d |-> 1, s |-> s]
Bool(b) == [t |-> "bool", n |-> IF b THEN 1 ELSE 0, d |-> 1, s |-> ""]
Null == [t |-> "null", n |-> 0, d |-> 1, s |-> ""]
Undef == [t |-> "undef", n |-> 0, d |-> 1, s |-> ""]
NaN == [t |-> "nan", n |-> 0, d |-> 1, s |-> ""]

Abs(x) == IF x < 0 THEN -x ELSE x

RECURSIVE Gcd(_, _)
Gcd(a, b) == IF b = 0 THEN a ELSE Gcd(b, a % b)

\* The number p/q (q # 0) in lowest terms with a positive denominator.
Frac(p, q) ==
    LET g == Gcd(Abs(p), Abs(q))
        sgn == IF q < 0 THEN -1 ELSE 1
    IN  [t |-> "num", n |-> sgn * (p \div g), d |-> sgn * (q \div g), s |-> ""]

\* typeof v === 'number'.  Besides the rationals and NaN a number can be
\* an infinity ("inf", sign n) or the irrational sign(n) * sqrt(|n| / d)
\* ("sqrt"), which only a division by a standard deviation produces.
IsNumber(v) == v.t \in {"num", "nan", "inf", "sqrt"}

\* a === b
StrictEq(a, b) == a = b /\ a.t # "nan"
\* Set membership compares with SameValueZero: NaN equals NaN
SameValueZero(a, b) == a = b

\* ToBoolean(v), as used by ||, && and if
Truthy(v) ==
    CASE v.t = "num" -> v.n # 0
      [] v.t = "str" -> v.s # ""
      [] v.t = "bool" -> v.n = 1
      [] v.t \in {"date", "inf", "sqrt"} -> TRUE
      [] OTHER -> FALSE

\* a || b
Or(a, b) == IF Truthy(a) THEN a ELSE b

\* value === null || value === undefined || value === ''
IsMissing(v) == v.t \in {"null", "undef"} \/ (v.t = "str" /\ v.s = "")

-----------------------------------------------------------------------------
(* Records: the sequence of own properties [k, v] in insertion order.      *)

Prop(k, v) == [k |-> k, v |-> v]
Has(rec, k) == \E i \in 1..Len(rec) : rec[i].k = k
\* rec[k]: undefined when the property is absent
Get(rec, k) ==
    IF Has(rec, k) THEN rec[CHOOSE i \in 1..Len(rec) : rec[i].k = k].v ELSE Undef
\* rec[k] = v: an existing property keeps its place, a new one is appended
Put(rec, k, v) ==
    IF Has(rec, k)
    THEN [i \in 1..Len(rec) |-> IF rec[i].k = k THEN Prop(k, v) ELSE rec[i]]
    ELSE Append(rec, Prop(k, v))

\* The m-th smallest element of a set of indices
NthOf(S, m) == CHOOSE i \in S : Cardinality({j \in S : j <= i}) = m

\* The subsequence of seq at the indices S, in order
Pick(seq, S) == [m \in 1..Cardinality(S) |-> seq[NthOf(S, m)]]

\* All sequences over S of length 0..n
SeqsUpTo(S, n) == UNION {[1..m -> S] : m \in 0..n}

-----------------------------------------------------------------------------
(* String conversions, tabulated over the strings the inputs are drawn     *)
(* from.                                                                   *)

\* String.prototype.trim
Trim(s) ==
    CASE s = " a" -> "a"
      [] s = "a " -> "a"
      [] s = " " -> ""
      [] OTHER -> s


\* Decimal digits of a natural number (Number.prototype.toString, integers)
Digit(d) ==
    CASE d = 0 -> "0" [] d = 1 -> "1" [] d = 2 -> "2" [] d = 3 -> "3"
      [] d = 4 -> "4" [] d = 5 -> "5" [] d = 6 -> "6" [] d = 7 -> "7"
      [] d = 8 -> "8" [] OTHER -> "9"

RECURSIVE NatToStr(_)
NatToStr(n) == IF n < 10 THEN Digit(n) ELSE NatToStr(n \div 10) \o Digit(n % 10)

IntToStr(n) == IF n < 0 THEN "-" \o NatToStr(-n) ELSE NatToStr(n)

\* n written with at least w digits (padStart(w, '0'))
RECURSIVE Pad(_, _)
Pad(n, w) == IF w <= 1 THEN NatToStr(n) ELSE
    IF n < 10 THEN
        (IF w = 2 THEN "0" ELSE IF w = 3 THEN "00" ELSE "000") \o Digit(n)
    ELSE Pad(n \div 10, w - 1) \o Digit(n % 10)

\* String(v) / template-literal conversion of a value (integers only among
\* the numbers)
JsString(v) ==
    CASE v.t = "num" -> IF v.d = 1 THEN IntToStr(v.n)
                        ELSE IntToStr(v.n) \o "/" \o IntToStr(v.d)
      [] v.t = "str" -> v.s
      [] v.t = "bool" -> IF v.n = 1 THEN "true" ELSE "false"
      [] v.t = "null" -> "null"
      [] v.t = "undef" -> "undefined"
      [] OTHER -> "NaN"

\* Number(s) for a string: surrounding white space is dropped, the empty
\* string is 0, a decimal literal is its value, anything else NaN
StringToNumber(s) ==
    CASE Trim(s) = "" -> Num(0)
      [] Trim(s) = "0" -> Num(0)
      [] Trim(s) = "1" -> Num(1)
      [] Trim(s) = "2" -> Num(2)
      [] Trim(s) = "7" -> Num(7)
      [] OTHER -> NaN

\* ToNumber(v), as applied by the arithmetic operators
ToNumber(v) ==
    CASE v.t \in {"num", "nan"} -> v
      [] v.t = "null" -> Num(0)
      [] v.t = "bool" -> Num(v.n)
      [] v.t = "str" -> StringToNumber(v.s)
      [] OTHER -> NaN

\* parseFloat(v): the longest numeric prefix of String(v) after leading
\* white space; NaN when there is none (so '' and null give NaN)
ParseFloat(v) ==
    CASE v.t \in {"num", "nan"} -> v
      [] v.t = "str" /\ Trim(v.s) # "" -> StringToNumber(v.s)
      [] OTHER -> NaN

-----------------------------------------------------------------------------
(* Arithmetic on numbers (exact rationals; NaN is absorbing).              *)

BothNum(a, b) == a.t = "num" /\ b.t = "num"
Inf(sign) == [t |-> "inf", n |-> sign, d |-> 1, s |-> ""]
Add(a, b) == IF BothNum(a, b) THEN Frac(a.n * b.d + b.n * a.d, a.d * b.d) ELSE NaN
Sub(a, b) == IF BothNum(a, b) THEN Frac(a.n * b.d - b.n * a.d, a.d * b.d) ELSE NaN
Mul(a, b) ==
    CASE BothNum(a, b) -> Frac(a.n * b.n, a.d * b.d)
      [] a.t = "inf" /\ b.t = "num" /\ b.n # 0 -> Inf(IF b.n > 0 THEN a.n ELSE -a.n)
      [] OTHER -> NaN
\* a / b: x / 0 is an infinity, 0 / 0 is NaN
Div(a, b) ==
    CASE ~BothNum(a, b) -> NaN
      [] b.n # 0 -> Frac(a.n * b.d, a.d * b.n)
      [] a.n # 0 -> Inf(IF a.n > 0 THEN 1 ELSE -1)
      [] OTHER -> NaN
\* a <= b, a < b: false when either side is NaN
\* (a time value, a number of milliseconds too large for the integers of
\* the checker, is kept as n days and d milliseconds: see Time below)
Le(a, b) ==
    \/ BothNum(a, b) /\ a.n * b.d <= b.n * a.d
    \/ a.t = "time" /\ b.t = "time" /\ (a.n < b.n \/ (a.n = b.n /\ a.d <= b.d))
Lt(a, b) ==
    \/ BothNum(a, b) /\ a.n * b.d < b.n * a.d
    \/ a.t = "time" /\ b.t = "time" /\ (a.n < b.n \/ (a.n = b.n /\ a.d < b.d))

\* array.sort((a, b) => key(a) - key(b)) for numeric keys (a consistent
\* comparator): the stable ascending order.  keys[i] is the key of seq[i];
\* the result is the sequence of indices of seq in sorted order.
RECURSIVE InsertSorted(_, _, _)
InsertSorted(sorted, i, keys) ==
    IF sorted = <<>> THEN <<i>>
    ELSE IF Le(keys[sorted[Len(sorted)]], keys[i]) THEN Append(sorted, i)
    ELSE Append(InsertSorted(SubSeq(sorted, 1, Len(sorted) - 1), i, keys),
                sorted[Len(sorted)])

RECURSIVE SortedIndices(_, _)
SortedIndices(n, keys) ==
    IF n = 0 THEN <<>>
    ELSE InsertSorted(SortedIndices(n - 1, keys), n, keys)

SortByKeys(seq, keys) ==
    LET idx == SortedIndices(Len(seq), keys)
    IN  [j \in 1..Len(seq) |-> seq[idx[j]]]

\* seq.map(f) and seq.filter(p)
Map(seq, F(_)) == [i \in 1..Len(seq) |-> F(seq[i])]
Filter(seq, P(_)) == SelectSeq(seq, P)

\* values.reduce((a, b) => a + b, 0)
RECURSIVE SumSeq(_)
SumSeq(values) ==
    IF values = <<>> THEN Num(0)
    ELSE Add(SumSeq(SubSeq(values, 1, Len(values) - 1)), values[Len(values)])


-----------------------------------------------------------------------------
(* Dates: a time value is a number of milliseconds since the epoch (UTC).  *)

MsPerDay == 86400000

\* Day number of the civil date y-m-d (proleptic Gregorian, day 0 = 1970-01-01)
DaysFromCivil(y, m, d) ==
    LET yy == IF m <= 2 THEN y - 1 ELSE y
        era == yy \div 400
        yoe == yy - era * 400
        mp == IF m > 2 THEN m - 3 ELSE m + 9
        doy == (153 * mp + 2) \div 5 + d - 1
        doe == yoe * 365 + yoe \div 4 - yoe \div 100 + doy
    IN  era * 146097 + doe - 719468

\* The civil date <<y, m, d>> of a day number
CivilFromDays(z) ==
    LET zz == z + 719468
        era == zz \div 146097
        doe == zz - era * 146097
        yoe == (doe - doe \div 1460 + doe \div 36524 - doe \div 146096) \div 365
        doy == doe - (365 * yoe + yoe \div 4 - yoe \div 100)
        mp == (5 * doy + 2) \div 153
        d == doy - (153 * mp + 2) \div 5 + 1
        m == IF mp < 10 THEN mp + 3 ELSE mp - 9
        y == yoe + era * 400 + (IF m <= 2 THEN 1 ELSE 0)
    IN  <<y, m, d>>

\* The time value of day days, ms milliseconds into the day
Time(days, ms) == [t |-> "time", n |-> days, d |-> ms, s |-> ""]

\* Date.parse(s): the date-only ISO strings of the inputs are UTC midnight,
\* any other string of the inputs is no date (NaN)
DateParse(s) ==
    CASE s = "2026-01-01" -> Time(DaysFromCivil(2026, 1, 1), 0)
      [] s = "2026-01-02" -> Time(DaysFromCivil(2026, 1, 2), 0)
      [] s = "2026-01-03" -> Time(DaysFromCivil(2026, 1, 3), 0)
      [] OTHER -> NaN

\* The time value of new Date(v); NaN for an Invalid Date
TimeValue(v) ==
    CASE v.t = "str" -> DateParse(v.s)
      [] v.t = "num" /\ v.d = 1 -> Time(v.n \div MsPerDay, v.n % MsPerDay)
      [] v.t = "date" -> IF v.s = "" THEN Time(v.n, v.d) ELSE NaN
      [] v.t \in {"null", "bool"} -> Time(0, v.n)
      [] OTHER -> NaN

\* new Date(v) as a value: a Date object is its time value, or Invalid Date
DateObj(v) ==
    IF TimeValue(v).t = "time"
    THEN [t |-> "date", n |-> TimeValue(v).n, d |-> TimeValue(v).d, s |-> ""]
    ELSE [t |-> "date", n |-> 0, d |-> 0, s |-> "Invalid Date"]

\* date.getTime() as a number (times within the range of the integers)
GetTime(time) ==
    IF time.t = "time" THEN Num(time.n * MsPerDay + time.d) ELSE NaN

\* date.toISOString() for a time value (years 0..9999)
IsoString(time) ==
    LET civil == CivilFromDays(time.n)
        rest == time.d
    IN  Pad(civil[1], 4) \o "-" \o Pad(civil[2], 2) \o "-" \o Pad(civil[3], 2)
        \o "T" \o Pad(rest \div 3600000, 2) \o ":" \o Pad((rest \div 60000) % 60, 2)
        \o ":" \o Pad((rest \div 1000) % 60, 2) \o "." \o Pad(rest % 1000, 3) \o "Z"

\* date.toISOString().split('T')[0]
IsoDate(time) ==
    LET civil == CivilFromDays(time.n)
    IN  Pad(civil[1], 4) \o "-" \o Pad(civil[2], 2) \o "-" \o Pad(civil[3], 2)

-----------------------------------------------------------------------------
(* What a transform hands back: a freshly allocated array, the array it    *)
(* was given, or an exception.                                             *)

Fresh(recs) == [ref |-> "fresh", recs |-> recs]
Input(recs) == [ref |-> "data", recs |-> recs]
Thrown == [ref |-> "threw", recs |-> <<>>]

\* Nothing returned besides records
NoValue == [kind |-> "none"]

\* A default parameter value: used when the argument is undefined
Default(v, dflt) == IF v.t = "undef" THEN dflt ELSE v

-----------------------------------------------------------------------------
(* Cleaner (transformers/cleaner.js).                                      *)

\* data.filter with the seen-set, from record i on
RECURSIVE removeDuplicatesFrom(_, _, _, _)
removeDuplicatesFrom(recs, keyField, i, seen) ==
    IF i > Len(recs) THEN <<>>
    ELSE LET key == Get(recs[i], keyField)
         IN  IF \E k \in seen : SameValueZero(k, key)
             THEN removeDuplicatesFrom(recs, keyField, i + 1, seen)
             ELSE <<recs[i]>> \o removeDuplicatesFrom(recs, keyField, i + 1, seen \cup {key})

\* removeDuplicates keeping the last record of each key instead of the first
removeDuplicatesKeepLast(recs, keyField) ==
    LET field == Default(keyField, Str("id")).s
        IsLast(i) == \A j \in (i + 1)..Len(recs) :
                        ~SameValueZero(Get(recs[j], field), Get(recs[i], field))
    IN  Fresh([j \in 1..Cardinality({i \in 1..Len(recs) : IsLast(i)}) |->
                  recs[CHOOSE i \in 1..Len(recs) :
                         /\ IsLast(i)
                         /\ Cardinality({h \in 1..i : IsLast(h)}) = j]])

removeDuplicates(recs, keyField) ==
    Fresh(removeDuplicatesFrom(recs, Default(keyField, Str("id")).s, 1, {}))

\* Object.values(record).every(value => not missing)
NoMissing(rec) == \A i \in 1..Len(rec) : ~IsMissing(rec[i].v)

\* The 'fill' strategy on one record
FillRecord(rec, fillValue) ==
    [i \in 1..Len(rec) |->
        IF IsMissing(rec[i].v) THEN Prop(rec[i].k, fillValue) ELSE rec[i]]

\* The inner loop of 'forward-fill' over the properties of one record, from
\* property i on: <<the cleaned record, lastValues afterwards>>
RECURSIVE ForwardFillRecord(_, _, _, _)
ForwardFillRecord(cleaned, i, lastValues, fillValue) ==
    IF i > Len(cleaned) THEN <<cleaned, lastValues>>
    ELSE LET key == cleaned[i].k
         IN  IF IsMissing(cleaned[i].v)
             THEN ForwardFillRecord(
                      Put(cleaned, key, Or(Get(lastValues, key), fillValue)),
                      i + 1, lastValues, fillValue)
             ELSE ForwardFillRecord(cleaned, i + 1,
                                    Put(lastValues, key, cleaned[i].v), fillValue)

\* The outer loop of 'forward-fill', from record i on
RECURSIVE ForwardFillFrom(_, _, _, _)
ForwardFillFrom(recs, i, lastValues, fillValue) ==
    IF i > Len(recs) THEN <<>>
    ELSE LET step == ForwardFillRecord(recs[i], 1, lastValues, fillValue)
         IN  <<step[1]>> \o ForwardFillFrom(recs, i + 1, step[2], fillValue)

handleMissingValues(recs, strategyArg, fillArg) ==
    LET strategy == Default(strategyArg, Str("drop"))
        fillValue == Default(fillArg, Null)
    IN  CASE strategy = Str("drop") -> Fresh(SelectSeq(recs, NoMissing))
          [] strategy = Str("fill") ->
                Fresh([i \in 1..Len(recs) |-> FillRecord(recs[i], fillValue)])
          [] strategy = Str("forward-fill") ->
                Fresh(ForwardFillFrom(recs, 1, <<>>, fillValue))
          [] OTHER -> Input(recs)

\* One field of one record in normalizeDates
NormalizeDateField(rec, field, format) ==
    LET v == Get(rec, field)
        time == TimeValue(v)
    IN  IF ~Truthy(v) THEN rec
        ELSE CASE format = "iso" -> Put(rec, field, Str(IsoString(time)))
               [] format = "date" -> Put(rec, field, Str(IsoDate(time)))
               [] format = "timestamp" -> Put(rec, field, GetTime(time))
               [] OTHER -> rec

RECURSIVE NormalizeDateFields(_, _, _, _)
NormalizeDateFields(rec, dateFields, i, format) ==
    IF i > Len(dateFields) THEN rec
    ELSE NormalizeDateFields(NormalizeDateField(rec, dateFields[i], format),
                             dateFields, i + 1, format)

\* toISOString throws a RangeError on an Invalid Date
NormalizeDatesThrows(recs, dateFields, format) ==
    /\ format \in {"iso", "date"}
    /\ \E r \in 1..Len(recs), f \in 1..Len(dateFields) :
          /\ Truthy(Get(recs[r], dateFields[f]))
          /\ TimeValue(Get(recs[r], dateFields[f])).t # "time"

normalizeDates(recs, dateFields, formatArg) ==
    LET format == Default(formatArg, Str("iso")).s
    IN  IF NormalizeDatesThrows(recs, dateFields, format) THEN Thrown
        ELSE Fresh([i \in 1..Len(recs) |->
                       NormalizeDateFields(recs[i], dateFields, 1, format)])

\* value.trim() on strings, per property, into a new object
TrimRecord(rec) ==
    [i \in 1..Len(rec) |->
        IF rec[i].v.t = "str" THEN Prop(rec[i].k, Str(Trim(rec[i].v.s))) ELSE rec[i]]

trimStrings(recs) == Fresh([i \in 1..Len(recs) |-> TrimRecord(recs[i])])

\* parseInt(v, 10)
ParseInt(v) ==
    LET f == ParseFloat(IF v.t = "str" THEN v ELSE Str(JsString(v)))
    IN  IF f.t # "num" THEN NaN
        ELSE IF f.n >= 0 THEN Num(f.n \div f.d) ELSE Num(-((-f.n) \div f.d))

\* One typeMap entry applied to one record
ConvertField(rec, field, type) ==
    LET v == Get(rec, field)
    IN  IF v.t \in {"null", "undef"} THEN rec
        ELSE CASE type = "number" -> Put(rec, field, ParseFloat(v))
               [] type = "integer" -> Put(rec, field, ParseInt(v))
               [] type = "string" -> Put(rec, field, Str(JsString(v)))
               [] type = "boolean" -> Put(rec, field, Bool(Truthy(v)))
               [] type = "date" -> Put(rec, field, DateObj(v))
               [] OTHER -> rec

RECURSIVE ConvertFields(_, _, _)
ConvertFields(rec, typeMap, i) ==
    IF i > Len(typeMap) THEN rec
    ELSE ConvertFields(ConvertField(rec, typeMap[i].k, typeMap[i].v), typeMap, i + 1)

convertTypes(recs, typeMap) ==
    Fresh([i \in 1..Len(recs) |-> ConvertFields(recs[i], typeMap, 1)])

\* data.map(r => r[field]).filter(v => typeof v === 'number')
NumericValues(recs, field) ==
    LET all == [i \in 1..Len(recs) |-> Get(recs[i], field)]
    IN  SelectSeq(all, IsNumber)

\* values.sort((a, b) => a - b)
SortNumbers(values) == SortByKeys(values, values)

removeOutliers(recs, field, multiplierArg) ==
    LET multiplier == Default(multiplierArg, Frac(3, 2))
        values == SortNumbers(NumericValues(recs, field))
        q1 == values[(Len(values) \div 4) + 1]
        q3 == values[((3 * Len(values)) \div 4) + 1]
        iqr == Sub(q3, q1)
        lowerBound == Sub(q1, Mul(multiplier, iqr))
        upperBound == Add(q3, Mul(multiplier, iqr))
        Keep(record) ==
            LET value == Get(record, field)
            IN  IsNumber(value) /\ Le(lowerBound, value) /\ Le(value, upperBound)
    IN  IF Len(values) = 0 THEN Input(recs) ELSE Fresh(SelectSeq(recs, Keep))

\* (x - mean) / stdDev, where stdDev = sqrt(variance): exact, as the signed
\* square root of (x - mean)^2 / variance
ZScore(x, mean, variance) ==
    LET diff == Sub(ToNumber(x), mean)
    IN  CASE diff.t # "num" -> NaN
          [] variance.n = 0 /\ diff.n = 0 -> NaN
          [] variance.n = 0 -> Inf(IF diff.n > 0 THEN 1 ELSE -1)
          [] diff.n = 0 -> Num(0)
          [] OTHER ->
                LET sq == Div(Mul(diff, diff), variance)
                IN  [t |-> "sqrt", n |-> IF diff.n > 0 THEN sq.n ELSE -sq.n,
                     d |-> sq.d, s |-> ""]

standardize(recs, field) ==
    LET values == NumericValues(recs, field)
        n == Num(Len(values))
        mean == Div(SumSeq(values), n)
        squares == [i \in 1..Len(values) |->
                       Mul(Sub(values[i], mean), Sub(values[i], mean))]
        variance == Div(SumSeq(squares), n)
    IN  IF Len(values) = 0 THEN Input(recs)
        ELSE Fresh([i \in 1..Len(recs) |->
                       Put(recs[i], field \o "_standardized",
                           ZScore(Get(recs[i], field), mean, variance))])


\* An option holding an array or an object: present (always truthy) or absent
Given(val) == [has |-> TRUE, val |-> val]
Absent == [has |-> FALSE, val |-> <<>>]

\* cleanData called with no options at all
NoOptions ==
    [removeDuplicates |-> Undef, keyField |-> Undef,
     missingValueStrategy |-> Undef, fillValue |-> Undef,
     dateFields |-> Absent, dateFormat |-> Undef, typeMap |-> Absent,
     removeOutliers |-> Undef, outlierField |-> Undef, outlierMultiplier |-> Undef]

\* cleanData with the trim step made conditional on an option, like the
\* others (here: on the type map)
cleanDataTrimOptional(recs, options) ==
    LET deduped == IF Truthy(options.removeDuplicates)
                   THEN removeDuplicates(recs, options.keyField).recs
                   ELSE recs
        trimmed == IF options.typeMap.has THEN trimStrings(deduped).recs ELSE deduped
        filled == IF Truthy(options.missingValueStrategy)
                  THEN handleMissingValues(trimmed, options.missingValueStrategy,
                                           options.fillValue).recs
                  ELSE trimmed
        dated == IF options.dateFields.has
                 THEN normalizeDates(filled, options.dateFields.val, options.dateFormat)
                 ELSE Fresh(filled)
        typed == IF options.typeMap.has
                 THEN convertTypes(dated.recs, options.typeMap.val).recs
                 ELSE dated.recs
        trimmedOut == IF Truthy(options.removeOutliers) /\ Truthy(options.outlierField)
                      THEN removeOutliers(typed, options.outlierField.s,
                                          options.outlierMultiplier).recs
                      ELSE typed
    IN  IF dated.ref = "threw" THEN Thrown ELSE Fresh(trimmedOut)

cleanData(recs, options) ==
    LET copied == recs
        deduped == IF Truthy(options.removeDuplicates)
                   THEN removeDuplicates(copied, options.keyField).recs
                   ELSE copied
        trimmed == trimStrings(deduped).recs
        filled == IF Truthy(options.missingValueStrategy)
                  THEN handleMissingValues(trimmed, options.missingValueStrategy,
                                           options.fillValue).recs
                  ELSE trimmed
        dated == IF options.dateFields.has
                 THEN normalizeDates(filled, options.dateFields.val, options.dateFormat)
                 ELSE Fresh(filled)
        typed == IF options.typeMap.has
                 THEN convertTypes(dated.recs, options.typeMap.val).recs
                 ELSE dated.recs
        trimmedOut == IF Truthy(options.removeOutliers) /\ Truthy(options.outlierField)
                      THEN removeOutliers(typed, options.outlierField.s,
                                          options.outlierMultiplier).recs
                      ELSE typed
    IN  IF dated.ref = "threw" THEN Thrown ELSE Fresh(trimmedOut)

-----------------------------------------------------------------------------
(* Merger (transformers/merger.js).                                        *)

\* The loop over the fields of the right record in combineRecords, from
\* property i on
RECURSIVE CombineRight(_, _, _, _)
CombineRight(combined, rightRec, i, prefixRight) ==
    IF i > Len(rightRec) THEN combined
    ELSE LET newKey == prefixRight \o rightRec[i].k
         IN  IF Get(combined, newKey) # Undef
             THEN CombineRight(Put(combined, newKey \o "_conflict", rightRec[i].v),
                               rightRec, i + 1, prefixRight)
             ELSE CombineRight(Put(combined, newKey, rightRec[i].v),
                               rightRec, i + 1, prefixRight)

\* The loop over the fields of the left record in combineRecords
RECURSIVE CombineLeft(_, _, _, _)
CombineLeft(combined, leftRec, i, prefixLeft) ==
    IF i > Len(leftRec) THEN combined
    ELSE CombineLeft(Put(combined, prefixLeft \o leftRec[i].k, leftRec[i].v),
                     leftRec, i + 1, prefixLeft)

combineRecords(leftRec, rightRec, prefix) ==
    CombineRight(CombineLeft(<<>>, leftRec, 1, prefix.left), rightRec, 1, prefix.right)

\* find returning the last match instead of the first
FindLastIndex(recs, key, value) ==
    IF \E j \in 1..Len(recs) : StrictEq(Get(recs[j], key), value)
    THEN CHOOSE j \in 1..Len(recs) :
             /\ StrictEq(Get(recs[j], key), value)
             /\ \A h \in (j + 1)..Len(recs) : ~StrictEq(Get(recs[h], key), value)
    ELSE 0

\* recs.find(r => r[key] === value): the index of the first match, 0 if none
FindIndex(recs, key, value) ==
    IF \E j \in 1..Len(recs) : StrictEq(Get(recs[j], key), value)
    THEN CHOOSE j \in 1..Len(recs) :
             /\ StrictEq(Get(recs[j], key), value)
             /\ \A h \in 1..(j - 1) : ~StrictEq(Get(recs[h], key), value)
    ELSE 0

DefaultPrefix == [left |-> "", right |-> "_right"]

\* The options of mergeData with their defaults filled in
MergeOptions(options) ==
    [leftKey |-> Default(options.leftKey, Str("id")).s,
     rightKey |-> Default(options.rightKey, Str("id")).s,
     type |-> Default(options.type, Str("inner")).s,
     prefix |-> IF options.prefix.has THEN options.prefix.val ELSE DefaultPrefix]

\* A pair of source records that mergeData combines; {} is the empty record
Pair(leftRec, rightRec) == [l |-> leftRec, r |-> rightRec]

\* The inner/left loop over the left records, from record i on: the pairs
\* pushed to merged, in order
RECURSIVE MergeLeftLoop(_, _, _, _)
MergeLeftLoop(leftRecs, rightRecs, o, i) ==
    IF i > Len(leftRecs) THEN <<>>
    ELSE LET j == FindIndex(rightRecs, o.rightKey, Get(leftRecs[i], o.leftKey))
             rest == MergeLeftLoop(leftRecs, rightRecs, o, i + 1)
         IN  IF j # 0 THEN <<Pair(leftRecs[i], rightRecs[j])>> \o rest
             ELSE IF o.type = "left" THEN <<Pair(leftRecs[i], <<>>)>> \o rest
             ELSE rest

\* merged.some(m => m[leftKey] === leftRecord[leftKey])
MergedHasKey(pairs, o, leftRec) ==
    \E m \in 1..Len(pairs) :
        StrictEq(Get(combineRecords(pairs[m].l, pairs[m].r, o.prefix), o.leftKey),
                 Get(leftRec, o.leftKey))

\* The right/outer loop over the right records, from record j on, given the
\* pairs merged so far: all the pairs merged at the end
RECURSIVE MergeRightLoop(_, _, _, _, _)
MergeRightLoop(leftRecs, rightRecs, o, j, pairs) ==
    IF j > Len(rightRecs) THEN pairs
    ELSE LET i == FindIndex(leftRecs, o.leftKey, Get(rightRecs[j], o.rightKey))
         IN  IF i = 0
             THEN MergeRightLoop(leftRecs, rightRecs, o, j + 1,
                                 Append(pairs, Pair(<<>>, rightRecs[j])))
             ELSE IF o.type = "outer" /\ ~MergedHasKey(pairs, o, leftRecs[i])
             THEN MergeRightLoop(leftRecs, rightRecs, o, j + 1,
                                 Append(pairs, Pair(leftRecs[i], rightRecs[j])))
             ELSE MergeRightLoop(leftRecs, rightRecs, o, j + 1, pairs)

\* The source records of every record of the result of mergeData, in order
MergePairs(leftRecs, rightRecs, options) ==
    LET o == MergeOptions(options)
        first == IF o.type \in {"inner", "left"}
                 THEN MergeLeftLoop(leftRecs, rightRecs, o, 1)
                 ELSE <<>>
    IN  IF o.type \in {"right", "outer"}
        THEN MergeRightLoop(leftRecs, rightRecs, o, 1, first)
        ELSE first

mergeData(leftRecs, rightRecs, options) ==
    LET pairs == MergePairs(leftRecs, rightRecs, options)
    IN  Fresh([m \in 1..Len(pairs) |->
                  combineRecords(pairs[m].l, pairs[m].r, MergeOptions(options).prefix)])

\* array.join('|'): null and undefined become the empty string
RECURSIVE Join(_, _)
Join(values, sep) ==
    IF values = <<>> THEN ""
    ELSE LET last == values[Len(values)]
             text == IF last.t \in {"null", "undef"} THEN "" ELSE JsString(last)
         IN  IF Len(values) = 1 THEN text
             ELSE Join(SubSeq(values, 1, Len(values) - 1), sep) \o sep \o text

\* groupFields.map(field => record[field])
FieldValues(rec, fields) == [f \in 1..Len(fields) |-> Get(rec, fields[f])]

\* groupFields.map(field => record[field]).join('|')
GroupKey(rec, groupFields) == Join(FieldValues(rec, groupFields), "|")

\* The array index a property name is (objects list these names first, in
\* ascending order), -1 for any other name.  Here: the name a single value
\* turns into.
ArrayIndex(values) ==
    IF Len(values) # 1 THEN -1
    ELSE CASE values[1].t = "num" /\ values[1].d = 1 /\ values[1].n >= 0 -> values[1].n
           [] values[1].t = "str" /\ values[1].s \in {"0", "1", "2", "7"} ->
                 StringToNumber(values[1].s).n
           [] OTHER -> -1

\* The grouping loop from record i on.  groups: the own properties of the
\* groups object in creation order, each [name, index, key, records]
RECURSIVE GroupLoop(_, _, _, _)
GroupLoop(recs, groupFields, i, groups) ==
    IF i > Len(recs) THEN groups
    ELSE LET groupKey == GroupKey(recs[i], groupFields)
             keyRec == [f \in 1..Len(groupFields) |->
                           Prop(groupFields[f], Get(recs[i], groupFields[f]))]
         IN  IF \E g \in 1..Len(groups) : groups[g].name = groupKey
             THEN GroupLoop(recs, groupFields, i + 1,
                      [g \in 1..Len(groups) |->
                          IF groups[g].name = groupKey
                          THEN [groups[g] EXCEPT !.records = Append(@, recs[i])]
                          ELSE groups[g]])
             ELSE GroupLoop(recs, groupFields, i + 1,
                      Append(groups,
                             [name |-> groupKey,
                              index |-> ArrayIndex(FieldValues(recs[i], groupFields)),
                              key |-> keyRec,
                              records |-> <<recs[i]>>]))

\* Object.values(groups): array-index names ascending, then the other names
\* in creation order
ObjectValues(groups) ==
    LET indices == {groups[g].index : g \in 1..Len(groups)} \cup {0}
        last == CHOOSE x \in indices : \A y \in indices : y <= x
        keys == [g \in 1..Len(groups) |->
                    IF groups[g].index >= 0 THEN Num(groups[g].index)
                    ELSE Num(last + 1)]
    IN  SortByKeys(groups, keys)

\* Math.min(...values) and Math.max(...values): +-Infinity without values
RECURSIVE MinOf(_)
MinOf(values) ==
    IF values = <<>> THEN Inf(1)
    ELSE LET rest == MinOf(SubSeq(values, 1, Len(values) - 1))
             last == values[Len(values)]
         IN  IF rest.t = "inf" \/ Lt(last, rest) THEN last ELSE rest

RECURSIVE MaxOf(_)
MaxOf(values) ==
    IF values = <<>> THEN Inf(-1)
    ELSE LET rest == MaxOf(SubSeq(values, 1, Len(values) - 1))
             last == values[Len(values)]
         IN  IF rest.t = "inf" \/ Lt(rest, last) THEN last ELSE rest

\* An aggregation that counts only the numeric values of the field
AggregateCountNumeric(aggregated, records, field, aggType) ==
    LET values == NumericValues(records, field)
    IN  CASE aggType = "sum" -> Put(aggregated, field \o "_sum", SumSeq(values))
          [] aggType = "count" -> Put(aggregated, field \o "_count", Num(Len(values)))
          [] OTHER -> aggregated

\* One entry of aggregations applied to one group (the switch)
Aggregate(aggregated, records, field, aggType) ==
    LET values == NumericValues(records, field)
    IN  CASE aggType = "sum" -> Put(aggregated, field \o "_sum", SumSeq(values))
          [] aggType \in {"avg", "average"} ->
                Put(aggregated, field \o "_avg", Div(SumSeq(values), Num(Len(values))))
          [] aggType = "min" -> Put(aggregated, field \o "_min", MinOf(values))
          [] aggType = "max" -> Put(aggregated, field \o "_max", MaxOf(values))
          [] aggType = "count" -> Put(aggregated, field \o "_count", Num(Len(records)))
          [] OTHER -> aggregated

RECURSIVE AggregateAll(_, _, _, _)
AggregateAll(aggregated, records, aggregations, a) ==
    IF a > Len(aggregations) THEN aggregated
    ELSE AggregateAll(Aggregate(aggregated, records, aggregations[a].k,
                                aggregations[a].v),
                      records, aggregations, a + 1)

\* groupBy, for group values that name no property of Object.prototype
groupBy(recs, groupFields, aggregations) ==
    LET groups == ObjectValues(GroupLoop(recs, groupFields, 1, <<>>))
    IN  Fresh([m \in 1..Len(groups) |->
                  AggregateAll(groups[m].key, groups[m].records, aggregations, 1)])

-----------------------------------------------------------------------------
(* The caller's side of a call.                                            *)

\* The array the last call returned, as it is now
Result == IF retRef = "data" THEN data ELSE fresh

\* A call c returns r: a reference to the input array or to a new one
Return(c, r) ==
    /\ retRef = "none"
    /\ call' = c
    /\ retRef' = r.ref
    /\ fresh' = IF r.ref = "fresh" THEN r.recs ELSE <<>>
    /\ owned' = r.recs
    /\ UNCHANGED <<data, orig, right, returned>>

\* A call c returns an object: the records it holds (a new array) and the
\* rest of it
ReturnValue(c, recs, value) ==
    /\ retRef = "none"
    /\ call' = c
    /\ retRef' = "fresh"
    /\ fresh' = recs
    /\ owned' = recs
    /\ returned' = value
    /\ UNCHANGED <<data, orig, right>>

\* The record a caller adds to a dataset it got back from a transform
Extra == <<Prop("id", Num(0)), Prop("v", Str("added"))>>

\* The caller treats the returned dataset as its own and appends to it
CallerAppend ==
    /\ retRef \in {"data", "fresh"}
    /\ Result = owned
    /\ IF retRef = "data"
       THEN data' = Append(data, Extra) /\ UNCHANGED fresh
       ELSE fresh' = Append(fresh, Extra) /\ UNCHANGED data
    /\ UNCHANGED <<orig, right, call, retRef, owned, returned>>

-----------------------------------------------------------------------------
(* Cleaner calls.                                                          *)

IdVals == {Num(1), Num(2)}
VVals == {Num(0), Num(7), Null, Str(" a")}
CleanRecords == {<<Prop("id", i), Prop("v", v)>> : i \in IdVals, v \in VVals}

KeyFieldArgs == {Undef, Str("v")}
StrategyArgs == {Undef, Str("fill"), Str("forward-fill"), Str("interpolate")}
FillArgs == {Undef, Num(9)}
FormatArgs == {Undef, Str("date"), Str("timestamp")}
TypeArgs == {"number", "integer", "string", "boolean", "date"}

\* The option objects cleanData is called with: none, and each option alone
\* or with the parameters that go with it
CleanOptions ==
    {NoOptions}
    \cup {[NoOptions EXCEPT !.removeDuplicates = Bool(TRUE), !.keyField = k] :
             k \in KeyFieldArgs}
    \cup {[NoOptions EXCEPT !.keyField = Str("v")]}
    \cup {[NoOptions EXCEPT !.missingValueStrategy = st] :
             st \in {Str("drop")} \cup (StrategyArgs \ {Undef})}
    \cup {[NoOptions EXCEPT !.missingValueStrategy = Str("fill"), !.fillValue = Num(9)]}
    \cup {[NoOptions EXCEPT !.fillValue = Num(9)]}
    \cup {[NoOptions EXCEPT !.dateFields = Given(<<"v">>), !.dateFormat = f] :
             f \in FormatArgs}
    \cup {[NoOptions EXCEPT !.typeMap = Given(<<Prop("v", ty)>>)] : ty \in TypeArgs}
    \cup {[NoOptions EXCEPT !.removeOutliers = Bool(TRUE), !.outlierField = Str("v")]}
    \cup {[NoOptions EXCEPT !.removeOutliers = Bool(TRUE)]}
    \cup {[NoOptions EXCEPT !.outlierField = Str("v")]}
    \cup {[NoOptions EXCEPT !.removeDuplicates = Bool(TRUE),
                            !.missingValueStrategy = Str("drop"),
                            !.removeOutliers = Bool(TRUE), !.outlierField = Str("v")]}

InitClean ==
    /\ data \in SeqsUpTo(CleanRecords, MaxLen)
    /\ orig = data
    /\ right = <<>>
    /\ call = [op |-> "none"]
    /\ fresh = <<>>
    /\ retRef = "none"
    /\ owned = <<>>
    /\ returned = NoValue

CallRemoveDuplicates ==
    \E k \in KeyFieldArgs :
        Return([op |-> "removeDuplicates", keyField |-> k], removeDuplicates(data, k))

CallHandleMissingValues ==
    \E st \in StrategyArgs, f \in FillArgs :
        Return([op |-> "handleMissingValues", strategy |-> st, fillValue |-> f],
               handleMissingValues(data, st, f))

CallNormalizeDates ==
    \E f \in FormatArgs :
        Return([op |-> "normalizeDates", format |-> f],
               normalizeDates(data, <<"v">>, f))

CallTrimStrings == Return([op |-> "trimStrings"], trimStrings(data))

CallConvertTypes ==
    \E ty \in TypeArgs :
        Return([op |-> "convertTypes", type |-> ty],
               convertTypes(data, <<Prop("v", ty)>>))

CallRemoveOutliers ==
    \E m \in {Undef, Num(0)} :
        Return([op |-> "removeOutliers", multiplier |-> m],
               removeOutliers(data, "v", m))

CallStandardize == Return([op |-> "standardize"], standardize(data, "v"))

CallCleanData ==
    \E o \in CleanOptions :
        Return([op |-> "cleanData", options |-> o], cleanData(data, o))

NextClean ==
    \/ CallRemoveDuplicates
    \/ CallHandleMissingValues
    \/ CallNormalizeDates
    \/ CallTrimStrings
    \/ CallConvertTypes
    \/ CallRemoveOutliers
    \/ CallStandardize
    \/ CallCleanData
    \/ CallerAppend

SpecClean == InitClean /\ [][NextClean]_vars


-----------------------------------------------------------------------------
(* Missing-value handling on records with two fields, one of which takes   *)
(* every kind of missing and of falsy value.                               *)

AVals == {Num(0), Num(5), Null, Str(""), Bool(FALSE)}
BVals == {Null, Num(1)}
FillRecords == {<<Prop("a", a), Prop("b", b)>> : a \in AVals, b \in BVals}

InitFill ==
    /\ data \in SeqsUpTo(FillRecords, MaxLen)
    /\ orig = data
    /\ right = <<>>
    /\ call = [op |-> "none"]
    /\ fresh = <<>>
    /\ retRef = "none"
    /\ owned = <<>>
    /\ returned = NoValue

NextFill ==
    \/ CallHandleMissingValues
    \/ CallerAppend

SpecFill == InitFill /\ [][NextFill]_vars


-----------------------------------------------------------------------------
(* Properties of the cleaner.                                              *)

\* Indices of the records that are the first with their key value
FirstOfKey(recs, field) ==
    {i \in 1..Len(recs) :
        \A j \in 1..(i - 1) : Get(recs[j], field) # Get(recs[i], field)}

\* C1: removeDuplicates returns exactly one record per distinct key value,
\* namely the first record with that key in input order, and the kept
\* records are in their original relative order.
C1_RemoveDuplicatesKeepsFirst ==
    call.op = "removeDuplicates" =>
        LET field == Default(call.keyField, Str("id")).s
            keysIn == {Get(orig[i], field) : i \in 1..Len(orig)}
        IN  /\ owned = Pick(orig, FirstOfKey(orig, field))
            /\ \A k \in keysIn :
                  Cardinality({m \in 1..Len(owned) : Get(owned[m], field) = k}) = 1
            /\ Len(owned) = Cardinality(keysIn)

\* A later record with the key of the first one is dropped, the record
\* between them is kept
C1_Witness ==
    /\ call.op = "removeDuplicates"
    /\ call.keyField = Undef
    /\ Len(orig) = 3
    /\ Get(orig[1], "id") = Get(orig[3], "id")
    /\ Get(orig[2], "id") # Get(orig[1], "id")
    /\ orig[1] # orig[3]
    /\ owned = <<orig[1], orig[2]>>

\* C2: every transform returns a new dataset and leaves the caller's
\* dataset as it was: once a call has returned, the input array still holds
\* the records it was given, and the returned array is not the input array.
C2_TransformsReturnNewDataset ==
    retRef \in {"data", "fresh"} => (data = orig /\ retRef # "data")

\* The records with every string value trimmed and nothing else changed
TrimmedCopy(recs, out) ==
    /\ Len(out) = Len(recs)
    /\ \A i \in 1..Len(recs) :
          /\ Len(out[i]) = Len(recs[i])
          /\ \A j \in 1..Len(recs[i]) :
                /\ out[i][j].k = recs[i][j].k
                /\ out[i][j].v = IF recs[i][j].v.t = "str"
                                 THEN Str(Trim(recs[i][j].v.s))
                                 ELSE recs[i][j].v

\* No option that switches a step of cleanData on is present
NoStepOption(o) ==
    /\ ~Truthy(o.removeDuplicates)
    /\ ~Truthy(o.missingValueStrategy)
    /\ ~o.dateFields.has
    /\ ~o.typeMap.has
    /\ ~(Truthy(o.removeOutliers) /\ Truthy(o.outlierField))

\* C3 as stated: cleanData without options returns the input records, field
\* for field, in the same order.
C3_NoOptionsIsNoOp ==
    (call.op = "cleanData" /\ call.options = NoOptions) => owned = orig

\* C3, amended: dedup, missing-value handling, date normalization, type
\* conversion and outlier removal run only when their option is present,
\* trimming always runs: with no step option the result is the input with
\* every string value trimmed, and with only the dedup option it is the
\* trimmed first record of each key.
C3_OnlyTrimWithoutOptions ==
    call.op = "cleanData" =>
        LET o == call.options
        IN  /\ NoStepOption(o) => TrimmedCopy(orig, owned)
            /\ NoStepOption([o EXCEPT !.removeDuplicates = Undef]) =>
                  \E kept \in SUBSET (1..Len(orig)) :
                      /\ ~Truthy(o.removeDuplicates) => kept = 1..Len(orig)
                      /\ Truthy(o.removeDuplicates) =>
                            kept = FirstOfKey(orig, Default(o.keyField, Str("id")).s)
                      /\ TrimmedCopy(Pick(orig, kept), owned)

\* cleanData without options on a dataset with a padded string
C3_Witness ==
    /\ call.op = "cleanData"
    /\ call.options = NoOptions
    /\ Len(orig) = 3
    /\ Get(orig[2], "v") = Str(" a")
    /\ Get(owned[2], "v") = Str("a")
    /\ owned[1] = orig[1]

\* The value forward-fill should give a missing field: the last non-missing
\* value of that field in an earlier record, fillValue when there is none
LastSeen(recs, i, key, fillValue) ==
    LET earlier == {h \in 1..(i - 1) :
                       Has(recs[h], key) /\ ~IsMissing(Get(recs[h], key))}
    IN  IF earlier = {} THEN fillValue
        ELSE Get(recs[CHOOSE h \in earlier : \A g \in earlier : g <= h], key)

\* C4: forward-fill replaces every missing field by the last non-missing
\* value seen for that field in an earlier record, whatever that value is
\* (0 and false included), by fillValue when no earlier record had one, and
\* leaves non-missing fields unchanged.
C4_ForwardFillUsesLastSeen ==
    (call.op = "handleMissingValues" /\ call.strategy = Str("forward-fill")) =>
        /\ Len(owned) = Len(orig)
        /\ \A i \in 1..Len(orig) :
              /\ Len(owned[i]) = Len(orig[i])
              /\ \A j \in 1..Len(orig[i]) :
                    /\ owned[i][j].k = orig[i][j].k
                    /\ owned[i][j].v =
                          IF IsMissing(orig[i][j].v)
                          THEN LastSeen(orig, i, orig[i][j].k,
                                        Default(call.fillValue, Null))
                          ELSE orig[i][j].v


-----------------------------------------------------------------------------
(* Merger calls: joins of two datasets on the key id.                      *)

LeftRecords ==
    { <<Prop("id", Num(1)), Prop("a", Num(10))>>,
      <<Prop("id", Num(1)), Prop("a", Num(20)), Prop("a_conflict", Num(21))>>,
      <<Prop("id", Num(2)), Prop("a", Num(11))>>,
      <<Prop("a", Num(12))>> }

RightRecords ==
    { <<Prop("id", Num(1)), Prop("a", Num(30))>>,
      <<Prop("id", Num(1)), Prop("a_conflict", Num(40)), Prop("a", Num(41))>>,
      <<Prop("id", Num(3)), Prop("b", Num(50))>>,
      <<Prop("b", Num(51))>> }

JoinTypes == {Undef, Str("left"), Str("right"), Str("outer")}
PrefixArgs == {Absent, Given([left |-> "", right |-> ""])}

InitMerge ==
    /\ data \in SeqsUpTo(LeftRecords, MaxSide)
    /\ orig = data
    /\ right \in SeqsUpTo(RightRecords, MaxSide)
    /\ call = [op |-> "none"]
    /\ fresh = <<>>
    /\ retRef = "none"
    /\ owned = <<>>
    /\ returned = NoValue

CallMergeData ==
    \E ty \in JoinTypes, pf \in PrefixArgs :
        LET options == [leftKey |-> Undef, rightKey |-> Str("id"),
                        type |-> ty, prefix |-> pf]
        IN  Return([op |-> "mergeData", options |-> options],
                   mergeData(data, right, options))

NextMerge ==
    \/ CallMergeData
    \/ CallerAppend

SpecMerge == InitMerge /\ [][NextMerge]_vars


-----------------------------------------------------------------------------
(* Properties of the merger.                                               *)

\* Join key of a left record and of a right record, and the prefixes, of
\* the last mergeData call
JoinType == MergeOptions(call.options).type
JoinPrefix == MergeOptions(call.options).prefix
LeftKeyOf(rec) == Get(rec, MergeOptions(call.options).leftKey)
RightKeyOf(rec) == Get(rec, MergeOptions(call.options).rightKey)

\* Right records matching left record i, and left records matching right
\* record j (=== on the keys)
RightMatches(i) ==
    {j \in 1..Len(right) : StrictEq(RightKeyOf(right[j]), LeftKeyOf(orig[i]))}
LeftMatches(j) ==
    {i \in 1..Len(orig) : StrictEq(LeftKeyOf(orig[i]), RightKeyOf(right[j]))}

Min(S) == CHOOSE x \in S : \A y \in S : x <= y

\* C5: an inner or left join emits at most one record per left record, in
\* left order, combined with the first right record with an equal key;
\* inner emits exactly the left records that have a match, left emits every
\* left record, with an empty right side when there is no match.
C5_InnerLeftJoinFirstMatch ==
    (call.op = "mergeData" /\ JoinType \in {"inner", "left"}) =>
        LET emitted == IF JoinType = "inner"
                       THEN {i \in 1..Len(orig) : RightMatches(i) # {}}
                       ELSE 1..Len(orig)
        IN  /\ Len(owned) = Cardinality(emitted)
            /\ \A m \in 1..Len(owned) :
                  LET i == NthOf(emitted, m)
                  IN  owned[m] =
                          combineRecords(orig[i],
                                         IF RightMatches(i) = {} THEN <<>>
                                         ELSE right[Min(RightMatches(i))],
                                         JoinPrefix)

\* A left join of an unmatched left record and one with two candidates
C5_Witness ==
    /\ call.op = "mergeData"
    /\ JoinType = "left"
    /\ Len(orig) = 2 /\ Len(right) = 2
    /\ RightMatches(1) = {}
    /\ RightMatches(2) = {1, 2}
    /\ right[1] # right[2]
    /\ Len(owned) = 2
    /\ Get(owned[1], "a") = Get(orig[1], "a")
    /\ Get(owned[2], JoinPrefix.right \o "a") = Get(right[1], "a")

\* C6: a right join emits exactly one record per right record, in right
\* order, combined with the first left record with an equal key, or with an
\* empty left side when no left record matches.
C6_RightJoinSymmetric ==
    (call.op = "mergeData" /\ JoinType = "right") =>
        /\ Len(owned) = Len(right)
        /\ \A j \in 1..Len(owned) :
              owned[j] = combineRecords(IF LeftMatches(j) = {} THEN <<>>
                                        ELSE orig[Min(LeftMatches(j))],
                                        right[j], JoinPrefix)

\* Number of records of the result that combine these two source records
Emitted(leftRec, rightRec) ==
    Cardinality({m \in 1..Len(owned) :
                    owned[m] = combineRecords(leftRec, rightRec, JoinPrefix)})

\* C7: an outer join returns every matched left/right pair, plus one record
\* with an empty right side for every left record without a match, plus one
\* record with an empty left side for every right record without a match,
\* and nothing else: no left and no right record is missing.
C7_OuterJoinComplete ==
    (call.op = "mergeData" /\ JoinType = "outer") =>
        /\ \A i \in 1..Len(orig) :
              IF RightMatches(i) = {} THEN Emitted(orig[i], <<>>) >= 1
              ELSE \A j \in RightMatches(i) : Emitted(orig[i], right[j]) >= 1
        /\ \A j \in 1..Len(right) :
              LeftMatches(j) = {} => Emitted(<<>>, right[j]) >= 1
        /\ Len(owned) =
              Cardinality({p \in (1..Len(orig)) \X (1..Len(right)) :
                              p[2] \in RightMatches(p[1])})
              + Cardinality({i \in 1..Len(orig) : RightMatches(i) = {}})
              + Cardinality({j \in 1..Len(right) : LeftMatches(j) = {}})

\* C8: in every record mergeData produces, each left field keeps its value
\* under prefix.left + name, and each right field is found under
\* prefix.right + name or, when that name was taken, under that name with
\* the suffix _conflict: no field of the combined record is overwritten.
C8_CombineNeverOverwrites ==
    call.op = "mergeData" =>
        LET pairs == MergePairs(orig, right, call.options)
        IN  \A m \in 1..Len(pairs) :
                /\ \A i \in 1..Len(pairs[m].l) :
                      Get(owned[m], JoinPrefix.left \o pairs[m].l[i].k) = pairs[m].l[i].v
                /\ \A j \in 1..Len(pairs[m].r) :
                      LET newKey == JoinPrefix.right \o pairs[m].r[j].k
                      IN  \/ Get(owned[m], newKey) = pairs[m].r[j].v
                          \/ Get(owned[m], newKey \o "_conflict") = pairs[m].r[j].v


-----------------------------------------------------------------------------
(* Group-by calls.                                                         *)

GVals == {Str("a"), Num(1), Str("1")}
XVals == {Num(2), Num(-3), Str("n")}
GroupRecords == {<<Prop("g", g), Prop("x", x)>> : g \in GVals, x \in XVals}

GroupFieldArgs == {<<"g">>, <<"g", "x">>}
AggregationArgs ==
    { <<Prop("x", "sum")>>, <<Prop("x", "count")>>,
      <<Prop("x", "sum"), Prop("g", "count")>>,
      <<Prop("x", "avg")>>, <<Prop("x", "average")>>,
      <<Prop("x", "min"), Prop("x", "max")>> }

InitGroup ==
    /\ data \in SeqsUpTo(GroupRecords, MaxLen)
    /\ orig = data
    /\ right = <<>>
    /\ call = [op |-> "none"]
    /\ fresh = <<>>
    /\ retRef = "none"
    /\ owned = <<>>
    /\ returned = NoValue

CallGroupBy ==
    \E gf \in GroupFieldArgs, ag \in AggregationArgs :
        Return([op |-> "groupBy", groupFields |-> gf, aggregations |-> ag],
               groupBy(data, gf, ag))

NextGroup ==
    \/ CallGroupBy
    \/ CallerAppend

SpecGroup == InitGroup /\ [][NextGroup]_vars

\* The arithmetic sum of the numeric values of a field over the records at
\* the indices S
RECURSIVE SumOfNumeric(_, _, _)
SumOfNumeric(recs, S, field) ==
    IF S = {} THEN Num(0)
    ELSE LET i == CHOOSE x \in S : TRUE
             v == Get(recs[i], field)
             rest == SumOfNumeric(recs, S \ {i}, field)
         IN  IF v.t = "num" THEN Frac(rest.n * v.d + v.n * rest.d, rest.d * v.d)
             ELSE rest

\* The sum of a field over all rows
RECURSIVE TotalOf(_, _, _)
TotalOf(rows, m, field) ==
    IF m = 0 THEN 0 ELSE TotalOf(rows, m - 1, field) + Get(rows[m], field).n

GroupTuples == {FieldValues(orig[i], call.groupFields) : i \in 1..Len(orig)}

\* C25: groupBy puts two records into the same output group if and only if
\* they have equal values for every field of groupFields; the number of
\* output rows equals the number of distinct groupFields value tuples in
\* the input, each tuple being the key of one row (values of different
\* types with the same text, or strings that contain the separator, do not
\* merge distinct tuples).
C25_OneGroupPerTuple ==
    call.op = "groupBy" =>
        /\ Len(owned) = Cardinality(GroupTuples)
        /\ \A tuple \in GroupTuples :
              Cardinality({m \in 1..Len(owned) :
                              FieldValues(owned[m], call.groupFields) = tuple}) = 1


-----------------------------------------------------------------------------
(* Calculator (transformers/calculator.js).                                *)

\* [...data].sort((a, b) => new Date(a[dateField]) - new Date(b[dateField]))
\* for records whose dates are all valid
SortByDate(recs, dateField) ==
    SortByKeys(recs, [i \in 1..Len(recs) |-> TimeValue(Get(recs[i], dateField))])

\* The record calculateGrowth maps the record at index (1-based) to
GrowthRecord(sorted, index, valueField) ==
    IF index = 1 THEN Put(sorted[index], "growth_rate", Num(0))
    ELSE LET current == Get(sorted[index], valueField)
             previous == Get(sorted[index - 1], valueField)
             change == Sub(ToNumber(current), ToNumber(previous))
             growthRate == IF ~StrictEq(previous, Num(0))
                           THEN Mul(Div(change, ToNumber(previous)), Num(100))
                           ELSE Num(0)
         IN  Put(Put(sorted[index], "growth_rate", growthRate),
                 "growth_absolute", change)

\* calculateGrowth without the sort: growth in array order
calculateGrowthUnsorted(recs, valueField, dateField) ==
    Fresh([index \in 1..Len(recs) |-> GrowthRecord(recs, index, valueField)])

calculateGrowth(recs, valueField, dateField) ==
    LET sorted == SortByDate(recs, dateField)
    IN  Fresh([index \in 1..Len(sorted) |-> GrowthRecord(sorted, index, valueField)])

-----------------------------------------------------------------------------
(* Calculator calls on a revenue time series.                              *)

DateVals == {Str("2026-01-01"), Str("2026-01-02"), Str("2026-01-03")}
RevenueVals == {Num(0), Num(1000), Num(1200)}
SeriesRecords == {<<Prop("date", d), Prop("revenue", v)>> : d \in DateVals, v \in RevenueVals}

InitCalc ==
    /\ data \in SeqsUpTo(SeriesRecords, MaxLen)
    /\ orig = data
    /\ right = <<>>
    /\ call = [op |-> "none"]
    /\ fresh = <<>>
    /\ retRef = "none"
    /\ owned = <<>>
    /\ returned = NoValue

CallCalculateGrowth ==
    Return([op |-> "calculateGrowth", valueField |-> "revenue", dateField |-> "date"],
           calculateGrowth(data, "revenue", "date"))

NextCalc ==
    \/ CallCalculateGrowth
    \/ CallerAppend

SpecCalc == InitCalc /\ [][NextCalc]_vars

\* Position of input record i in ascending date order (ties in input order)
DateRank(i) ==
    LET Day(h) == TimeValue(Get(orig[h], call.dateField)).n
    IN  1 + Cardinality({j \in 1..Len(orig) :
                            Day(j) < Day(i) \/ (Day(j) = Day(i) /\ j < i)})

\* The input record at position m of the date order
AtRank(m) == orig[CHOOSE i \in 1..Len(orig) : DateRank(i) = m]

\* C10: calculateGrowth orders the records ascending by date; the first
\* record gets growth_rate 0 and no growth_absolute; every later record gets
\* growth_absolute = current - previous and
\* growth_rate = (current - previous) / previous * 100, previous being the
\* value of the record just before it in date order, and growth_rate 0 when
\* previous is 0; 1000 then 1200 gives exactly 20.
C10_GrowthInDateOrder ==
    call.op = "calculateGrowth" =>
        LET Value(m) == Get(AtRank(m), call.valueField).n
        IN  /\ Len(owned) = Len(orig)
            /\ Len(orig) >= 1 =>
                  owned[1] = Append(AtRank(1), Prop("growth_rate", Num(0)))
            /\ \A m \in 2..Len(orig) :
                  LET rate == Get(owned[m], "growth_rate")
                      change == Value(m) - Value(m - 1)
                  IN  /\ owned[m] = AtRank(m) \o <<Prop("growth_rate", rate),
                                                   Prop("growth_absolute", Num(change))>>
                      /\ rate.t = "num"
                      /\ IF Value(m - 1) = 0 THEN rate = Num(0)
                         ELSE rate.n * Value(m - 1) = change * 100 * rate.d
                      /\ (Value(m - 1) = 1000 /\ Value(m) = 1200) => rate = Num(20)

\* Records supplied out of date order: 1200 on the later day, 1000 on the
\* earlier one, and a zero before them
C10_Witness ==
    /\ call.op = "calculateGrowth"
    /\ Len(orig) = 3
    /\ orig[1] = <<Prop("date", Str("2026-01-03")), Prop("revenue", Num(1200))>>
    /\ orig[2] = <<Prop("date", Str("2026-01-01")), Prop("revenue", Num(0))>>
    /\ orig[3] = <<Prop("date", Str("2026-01-02")), Prop("revenue", Num(1000))>>
    /\ ~Has(owned[1], "growth_absolute")
    /\ Get(owned[2], "growth_rate") = Num(0)
    /\ Get(owned[2], "growth_absolute") = Num(1000)
    /\ Get(owned[3], "growth_rate") = Num(20)
    /\ Get(owned[3], "growth_absolute") = Num(200)

-----------------------------------------------------------------------------
(* Calculator: the remaining dataset functions (transformers/calculator.js) *)

\* a > b on values (both sides converted with ToNumber)
Gt(a, b) == Lt(ToNumber(b), ToNumber(a))

\* The formulas a caller passes to addCalculatedField, by name
Formula(name, record) ==
    CASE name = "double" -> Mul(ToNumber(Get(record, "revenue")), Num(2))
      [] OTHER -> Sub(ToNumber(Get(record, "revenue")), ToNumber(Get(record, "cost")))

addCalculatedField(recs, fieldName, formula) ==
    Fresh([i \in 1..Len(recs) |-> Put(recs[i], fieldName, Formula(formula, recs[i]))])

\* The record calculateMovingAverage maps the record at index (1-based) to
MovingAverageRecord(recs, index, valueField, window) ==
    LET start == IF index - window + 1 > 1 THEN index - window + 1 ELSE 1
        windowData == SubSeq(recs, start, index)
        values == SelectSeq([i \in 1..Len(windowData) |-> Get(windowData[i], valueField)],
                            IsNumber)
        avg == Div(SumSeq(values), Num(Len(values)))
    IN  Put(recs[index], valueField \o "_ma" \o NatToStr(window), avg)

calculateMovingAverage(recs, valueField, window) ==
    LET w == Default(window, Num(7)).n
    IN  Fresh([index \in 1..Len(recs) |-> MovingAverageRecord(recs, index, valueField, w)])

\* sum after the first index records: sum += record[valueField] || 0
RECURSIVE RunningSum(_, _, _)
RunningSum(recs, valueField, index) ==
    IF index = 0 THEN Num(0)
    ELSE Add(RunningSum(recs, valueField, index - 1),
             Or(Get(recs[index], valueField), Num(0)))

calculateCumulativeSum(recs, valueField) ==
    Fresh([index \in 1..Len(recs) |->
              Put(recs[index], valueField \o "_cumsum", RunningSum(recs, valueField, index))])

\* data.reduce((sum, record) => sum + (record[valueField] || 0), 0)
FieldTotal(recs, valueField) == RunningSum(recs, valueField, Len(recs))

calculatePercentageOfTotal(recs, valueField) ==
    LET total == FieldTotal(recs, valueField)
    IN  Fresh([i \in 1..Len(recs) |->
                  Put(recs[i], valueField \o "_pct",
                      IF Gt(total, Num(0))
                      THEN Mul(Div(ToNumber(Get(recs[i], valueField)), total), Num(100))
                      ELSE Num(0))])

ROIRecord(record, revenueField, costField) ==
    LET revenue == Or(Get(record, revenueField), Num(0))
        cost == Or(Get(record, costField), Num(0))
        roi == IF Gt(cost, Num(0))
               THEN Mul(Div(Sub(revenue, cost), cost), Num(100))
               ELSE Num(0)
    IN  Put(Put(record, "roi", roi), "profit", Sub(revenue, cost))

calculateROI(recs, revenueField, costField) ==
    Fresh([i \in 1..Len(recs) |-> ROIRecord(recs[i], revenueField, costField)])

CACRecord(record, marketingSpendField, newCustomersField) ==
    LET spend == Or(Get(record, marketingSpendField), Num(0))
        customers == Or(Get(record, newCustomersField), Num(0))
        cac == IF Gt(customers, Num(0)) THEN Div(spend, customers) ELSE Num(0)
    IN  Put(record, "cac", cac)

calculateCAC(recs, marketingSpendField, newCustomersField) ==
    Fresh([i \in 1..Len(recs) |-> CACRecord(recs[i], marketingSpendField, newCustomersField)])

LTVRecord(record, avgRevenueField, churnRateField) ==
    LET avgRevenue == Or(Get(record, avgRevenueField), Num(0))
        churnRate == Or(Get(record, churnRateField), Frac(1, 10))
        ltv == IF Gt(churnRate, Num(0)) THEN Div(avgRevenue, churnRate) ELSE Num(0)
    IN  Put(record, "ltv", ltv)

calculateLTV(recs, avgRevenueField, retentionRateField, churnRateField) ==
    Fresh([i \in 1..Len(recs) |-> LTVRecord(recs[i], avgRevenueField, churnRateField)])

ChurnRateRecord(record, customersStartField, customersLostField) ==
    LET start == Or(Get(record, customersStartField), Num(0))
        lost == Or(Get(record, customersLostField), Num(0))
        churnRate == IF Gt(start, Num(0)) THEN Mul(Div(lost, start), Num(100)) ELSE Num(0)
    IN  Put(record, "churn_rate", churnRate)

calculateChurnRate(recs, customersStartField, customersEndField, customersLostField) ==
    Fresh([i \in 1..Len(recs) |->
              ChurnRateRecord(recs[i], customersStartField, customersLostField)])

ConversionRateRecord(record, conversionsField, visitsField) ==
    LET conversions == Or(Get(record, conversionsField), Num(0))
        visits == Or(Get(record, visitsField), Num(0))
        conversionRate == IF Gt(visits, Num(0))
                          THEN Mul(Div(conversions, visits), Num(100))
                          ELSE Num(0)
    IN  Put(record, "conversion_rate", conversionRate)

calculateConversionRate(recs, conversionsField, visitsField) ==
    Fresh([i \in 1..Len(recs) |-> ConversionRateRecord(recs[i], conversionsField, visitsField)])

AOVRecord(record, revenueField, ordersField) ==
    LET revenue == Or(Get(record, revenueField), Num(0))
        orders == Or(Get(record, ordersField), Num(0))
        aov == IF Gt(orders, Num(0)) THEN Div(revenue, orders) ELSE Num(0)
    IN  Put(record, "aov", aov)

calculateAOV(recs, revenueField, ordersField) ==
    Fresh([i \in 1..Len(recs) |-> AOVRecord(recs[i], revenueField, ordersField)])

\* rankRecords: a stable sort by b[valueField] - a[valueField] (descending),
\* or by the negated difference when ascending; then rank = position
rankRecords(recs, valueField, ascending) ==
    LET asc == Truthy(Default(ascending, Bool(FALSE)))
        keys == [i \in 1..Len(recs) |->
                    IF asc THEN ToNumber(Get(recs[i], valueField))
                    ELSE Sub(Num(0), ToNumber(Get(recs[i], valueField)))]
        sorted == SortByKeys(recs, keys)
    IN  Fresh([index \in 1..Len(sorted) |-> Put(sorted[index], "rank", Num(index))])

\* One entry of a calculation list: its type tag and the parameters the
\* dispatch reads from it (a parameter an entry does not carry is undefined)
Calc(type, valueField, dateField, window, revenueField, costField, fieldName, formula) ==
    [type |-> type, valueField |-> valueField, dateField |-> dateField,
     window |-> window, revenueField |-> revenueField, costField |-> costField,
     fieldName |-> fieldName, formula |-> formula]

\* The switch of applyCalculations on calc.type (no default branch)
ApplyCalc(result, calc) ==
    CASE calc.type = "growth" ->
            calculateGrowth(result, calc.valueField, calc.dateField).recs
      [] calc.type = "moving-average" ->
            calculateMovingAverage(result, calc.valueField, calc.window).recs
      [] calc.type = "cumsum" ->
            calculateCumulativeSum(result, calc.valueField).recs
      [] calc.type = "percentage" ->
            calculatePercentageOfTotal(result, calc.valueField).recs
      [] calc.type = "roi" ->
            calculateROI(result, calc.revenueField, calc.costField).recs
      [] calc.type = "custom" ->
            addCalculatedField(result, calc.fieldName, calc.formula).recs
      [] OTHER -> result

\* The loop of applyCalculations over the first n entries
RECURSIVE ApplyCalcs(_, _, _)
ApplyCalcs(recs, calculations, n) ==
    IF n = 0 THEN recs
    ELSE ApplyCalc(ApplyCalcs(recs, calculations, n - 1), calculations[n])

\* applyCalculations giving every entry the original dataset, so that only
\* the last entry shows in the result
applyCalculationsUnchained(recs, calculations) ==
    Fresh(IF calculations = <<>> THEN recs
          ELSE ApplyCalc(recs, calculations[Len(calculations)]))

applyCalculations(recs, calculations) ==
    Fresh(ApplyCalcs(recs, calculations, Len(calculations)))

-----------------------------------------------------------------------------
(* Calculator calls on records of a date, a revenue and a cost; one record *)
(* already carries a profit and a rank of its own.                         *)

KpiDates == {Str("2026-01-01"), Str("2026-01-02")}
KpiRevenues == {Num(-2), Num(3)}
KpiCosts == {Num(0), Num(2)}
KpiRecords ==
    {<<Prop("date", d), Prop("revenue", v), Prop("cost", c)>> :
        d \in KpiDates, v \in KpiRevenues, c \in KpiCosts}
    \cup {<<Prop("date", Str("2026-01-01")), Prop("revenue", Num(3)),
            Prop("cost", Num(2)), Prop("profit", Num(99)), Prop("rank", Num(7))>>}

\* The two numeric fields, either of which a call may name as its value
\* field or as its divisor
KpiFields == {"revenue", "cost"}
OtherField(f) == IF f = "revenue" THEN "cost" ELSE "revenue"

InitKpi ==
    /\ data \in SeqsUpTo(KpiRecords, MaxLen)
    /\ orig = data
    /\ right = <<>>
    /\ call = [op |-> "none"]
    /\ fresh = <<>>
    /\ retRef = "none"
    /\ owned = <<>>
    /\ returned = NoValue

CallAddCalculatedField ==
    \E formula \in {"double", "margin"} :
        Return([op |-> "addCalculatedField", fieldName |-> formula, formula |-> formula],
               addCalculatedField(data, formula, formula))

CallCalculateMovingAverage ==
    \E window \in {Undef, Num(2)} :
        Return([op |-> "calculateMovingAverage", valueField |-> "revenue", window |-> window],
               calculateMovingAverage(data, "revenue", window))

CallCalculateCumulativeSum ==
    \E f \in KpiFields :
        Return([op |-> "calculateCumulativeSum", valueField |-> f],
               calculateCumulativeSum(data, f))

CallCalculatePercentageOfTotal ==
    \E f \in KpiFields :
        Return([op |-> "calculatePercentageOfTotal", valueField |-> f],
               calculatePercentageOfTotal(data, f))

CallCalculateROI ==
    \E f \in KpiFields :
        Return([op |-> "calculateROI", divisor |-> f, derived |-> "roi"],
               calculateROI(data, OtherField(f), f))

CallCalculateCAC ==
    \E f \in KpiFields :
        Return([op |-> "calculateCAC", divisor |-> f, derived |-> "cac"],
               calculateCAC(data, OtherField(f), f))

CallCalculateLTV ==
    \E f \in KpiFields :
        Return([op |-> "calculateLTV", divisor |-> f, derived |-> "ltv"],
               calculateLTV(data, OtherField(f), "retention", f))

CallCalculateChurnRate ==
    \E f \in KpiFields :
        Return([op |-> "calculateChurnRate", divisor |-> f, derived |-> "churn_rate"],
               calculateChurnRate(data, f, "end", OtherField(f)))

CallCalculateConversionRate ==
    \E f \in KpiFields :
        Return([op |-> "calculateConversionRate", divisor |-> f,
                derived |-> "conversion_rate"],
               calculateConversionRate(data, OtherField(f), f))

CallCalculateAOV ==
    \E f \in KpiFields :
        Return([op |-> "calculateAOV", divisor |-> f, derived |-> "aov"],
               calculateAOV(data, OtherField(f), f))

CallRankRecords ==
    \E f \in KpiFields, ascending \in {Undef, Bool(TRUE)} :
        Return([op |-> "rankRecords", valueField |-> f, ascending |-> ascending],
               rankRecords(data, f, ascending))

NextKpi ==
    \/ CallAddCalculatedField
    \/ CallCalculateGrowth
    \/ CallCalculateMovingAverage
    \/ CallCalculateCumulativeSum
    \/ CallCalculatePercentageOfTotal
    \/ CallCalculateROI
    \/ CallCalculateCAC
    \/ CallCalculateLTV
    \/ CallCalculateChurnRate
    \/ CallCalculateConversionRate
    \/ CallCalculateAOV
    \/ CallRankRecords
    \/ CallerAppend

SpecKpi == InitKpi /\ [][NextKpi]_vars

\* C11: calculatePercentageOfTotal: whenever the total of the value field
\* over the dataset is nonzero, positive or negative, the <field>_pct values
\* of all records sum to 100.
C11_PercentagesSumTo100 ==
    call.op = "calculatePercentageOfTotal" =>
        LET total == SumSeq([i \in 1..Len(orig) |-> Get(orig[i], call.valueField)])
            pcts == [i \in 1..Len(owned) |-> Get(owned[i], call.valueField \o "_pct")]
        IN  total # Num(0) => SumSeq(pcts) = Num(100)

\* C11 for positive totals only, where the code does what the claim says
C11_PositiveTotalSumsTo100 ==
    call.op = "calculatePercentageOfTotal" =>
        LET total == SumSeq([i \in 1..Len(orig) |-> Get(orig[i], call.valueField)])
            pcts == [i \in 1..Len(owned) |-> Get(owned[i], call.valueField \o "_pct")]
        IN  total.n > 0 => SumSeq(pcts) = Num(100)

\* C12: each KPI calculation guards the division by zero: every record
\* whose divisor field is 0 gets the derived field (roi, cac, ltv,
\* churn_rate, conversion_rate, aov) 0.
C12_ZeroDivisorGivesZero ==
    call.op \in {"calculateROI", "calculateCAC", "calculateLTV", "calculateChurnRate",
                 "calculateConversionRate", "calculateAOV"} =>
        \A i \in 1..Len(orig) :
            Get(orig[i], call.divisor) = Num(0) => Get(owned[i], call.derived) = Num(0)

\* C12 for the five calculations other than calculateLTV
C12_ZeroDivisorGivesZeroExceptLTV ==
    call.op \in {"calculateROI", "calculateCAC", "calculateChurnRate",
                 "calculateConversionRate", "calculateAOV"} =>
        \A i \in 1..Len(orig) :
            Get(orig[i], call.divisor) = Num(0) => Get(owned[i], call.derived) = Num(0)

\* Output record out keeps every field of input record in with its value
Keeps(out, in) == \A j \in 1..Len(in) : Has(out, in[j].k) /\ Get(out, in[j].k) = in[j].v

\* Output record out keeps every field of in that is not named in names
KeepsExcept(out, in, names) ==
    \A j \in 1..Len(in) :
        in[j].k \notin names => Has(out, in[j].k) /\ Get(out, in[j].k) = in[j].v

\* The one-to-one assignments of output positions to input positions: the
\* identity for the functions that map in place, any for those that sort
Derivations ==
    IF call.op \in {"calculateGrowth", "rankRecords"}
    THEN {pi \in [1..Len(orig) -> 1..Len(orig)] :
             \A a, b \in 1..Len(orig) : pi[a] = pi[b] => a = b}
    ELSE {[i \in 1..Len(orig) |-> i]}

\* C13: every calculator function that returns a dataset is append-only:
\* the output has as many records as the input, and each output record
\* contains every field of the input record it was derived from with its
\* value unchanged.
C13_CalculatorAppendOnly ==
    call.op # "none" =>
        /\ Len(owned) = Len(orig)
        /\ \E pi \in Derivations : \A i \in 1..Len(orig) : Keeps(owned[i], orig[pi[i]])

\* C13 for the input fields that do not bear the name of a derived field
C13_AppendOnlyBesidesDerivedNames ==
    call.op # "none" =>
        /\ Len(owned) = Len(orig)
        /\ \E pi \in Derivations : \A i \in 1..Len(orig) :
              KeepsExcept(owned[i], orig[pi[i]], {"profit", "rank"})

-----------------------------------------------------------------------------
(* applyCalculations on short datasets with lists of calculation entries.  *)

ApplyRecords ==
    {<<Prop("date", Str("2026-01-02")), Prop("revenue", Num(3)), Prop("cost", Num(2))>>,
     <<Prop("date", Str("2026-01-01")), Prop("revenue", Num(-2)), Prop("cost", Num(0))>>,
     <<Prop("date", Str("2026-01-01")), Prop("revenue", Num(3)), Prop("cost", Num(0))>>}

\* Entries of the six types the switch knows, and of six tags for the other
\* operations of the calculator
CalcEntries ==
    {Calc("growth", "revenue", "date", Undef, "", "", "", ""),
     Calc("moving-average", "revenue", "", Num(2), "", "", "", ""),
     Calc("cumsum", "profit", "", Undef, "", "", "", ""),
     Calc("percentage", "revenue", "", Undef, "", "", "", ""),
     Calc("roi", "", "", Undef, "revenue", "cost", "", ""),
     Calc("custom", "", "", Undef, "", "", "double", "double"),
     Calc("cac", "", "", Undef, "revenue", "cost", "", ""),
     Calc("ltv", "", "", Undef, "revenue", "cost", "", ""),
     Calc("churn", "", "", Undef, "revenue", "cost", "", ""),
     Calc("conversion", "", "", Undef, "revenue", "cost", "", ""),
     Calc("aov", "", "", Undef, "revenue", "cost", "", ""),
     Calc("rank", "revenue", "", Undef, "", "", "", "")}

InitApply ==
    /\ data \in SeqsUpTo(ApplyRecords, MaxRows)
    /\ orig = data
    /\ right = <<>>
    /\ call = [op |-> "none"]
    /\ fresh = <<>>
    /\ retRef = "none"
    /\ owned = <<>>
    /\ returned = NoValue

CallApplyCalculations ==
    \E calculations \in SeqsUpTo(CalcEntries, MaxCalcs) :
        Return([op |-> "applyCalculations", calculations |-> calculations],
               applyCalculations(data, calculations))

NextApply ==
    \/ CallApplyCalculations
    \/ CallerAppend

SpecApply == InitApply /\ [][NextApply]_vars

\* The calculator function an entry of a known type designates
DesignatedKnown(recs, calc) ==
    CASE calc.type = "growth" -> calculateGrowth(recs, calc.valueField, calc.dateField).recs
      [] calc.type = "moving-average" ->
            calculateMovingAverage(recs, calc.valueField, calc.window).recs
      [] calc.type = "cumsum" -> calculateCumulativeSum(recs, calc.valueField).recs
      [] calc.type = "percentage" -> calculatePercentageOfTotal(recs, calc.valueField).recs
      [] calc.type = "roi" -> calculateROI(recs, calc.revenueField, calc.costField).recs
      [] calc.type = "custom" -> addCalculatedField(recs, calc.fieldName, calc.formula).recs

\* The calculator function an entry designates, for every operation of the
\* calculator
Designated(recs, calc) ==
    CASE calc.type = "cac" -> calculateCAC(recs, calc.revenueField, calc.costField).recs
      [] calc.type = "ltv" ->
            calculateLTV(recs, calc.revenueField, "retention", calc.costField).recs
      [] calc.type = "churn" ->
            calculateChurnRate(recs, calc.costField, "end", calc.revenueField).recs
      [] calc.type = "conversion" ->
            calculateConversionRate(recs, calc.revenueField, calc.costField).recs
      [] calc.type = "aov" -> calculateAOV(recs, calc.revenueField, calc.costField).recs
      [] calc.type = "rank" -> rankRecords(recs, calc.valueField, Undef).recs
      [] OTHER -> DesignatedKnown(recs, calc)

KnownTypes == {"growth", "moving-average", "cumsum", "percentage", "roi", "custom"}

\* C14: applyCalculations(data, calculations) equals applying, one after
\* the other in list order, the calculator function designated by each
\* entry's type tag, for every operation of the calculator (growth, moving
\* average, cumulative sum, percentage of total, ROI, CAC, LTV, churn rate,
\* conversion rate, AOV, ranking); a later entry sees the fields added by the
\* earlier entries.
C14_ApplyDispatchesEveryOperation ==
    call.op = "applyCalculations" =>
        LET calcs == call.calculations
        IN  /\ Len(calcs) = 0 => owned = orig
            /\ Len(calcs) = 1 => owned = Designated(orig, calcs[1])
            /\ Len(calcs) = 2 => owned = Designated(Designated(orig, calcs[1]), calcs[2])
            /\ Len(calcs) = 3 =>
                  owned = Designated(Designated(Designated(orig, calcs[1]), calcs[2]),
                                     calcs[3])

\* The dataset after an entry: that of its designated function for the six
\* types growth, moving-average, cumsum, percentage, roi and custom, the
\* dataset unchanged for an entry of any other type
Step(recs, calc) ==
    IF calc.type \in KnownTypes THEN DesignatedKnown(recs, calc) ELSE recs

\* C14 (amended): applyCalculations equals applying in list order the
\* function designated by each entry of type growth, moving-average, cumsum,
\* percentage, roi or custom, a later entry seeing the fields added by the
\* earlier ones; an entry of any other type is skipped.
C14_ApplyDispatchesKnownTypes ==
    call.op = "applyCalculations" =>
        LET calcs == call.calculations
        IN  /\ Len(calcs) = 0 => owned = orig
            /\ Len(calcs) = 1 => owned = Step(orig, calcs[1])
            /\ Len(calcs) = 2 => owned = Step(Step(orig, calcs[1]), calcs[2])
            /\ Len(calcs) = 3 => owned = Step(Step(Step(orig, calcs[1]), calcs[2]), calcs[3])

\* roi then cumsum over the profit that roi added: the running sum is of the
\* profits 1 and -2, not of an absent field
C14_Witness ==
    /\ call.op = "applyCalculations"
    /\ Len(call.calculations) = 2
    /\ call.calculations[1].type = "roi"
    /\ call.calculations[2].type = "cumsum"
    /\ Len(orig) = 2
    /\ Get(orig[1], "revenue") = Num(3) /\ Get(orig[1], "cost") = Num(2)
    /\ Get(orig[2], "revenue") = Num(-2) /\ Get(orig[2], "cost") = Num(0)
    /\ Get(owned[1], "profit_cumsum") = Num(1)
    /\ Get(owned[2], "profit_cumsum") = Num(-1)
    /\ Get(owned[2], "roi") = Num(0)

-----------------------------------------------------------------------------
(* Anomaly detection (analyzers/anomaly.js).    The detectors filter the   *)
(* input array, so the records they flag are the input's own record        *)
(* objects: a flagged record is kept here as its position in the input.    *)

\* data.filter(pred) as the positions of the records kept
Positions(n, Flagged(_)) == SelectSeq([i \in 1..n |-> i], Flagged)

\* Math.sqrt(x) of a rational x >= 0, kept exact
Sqrt(x) == IF x.t = "num" /\ x.n = 0 THEN Num(0)
           ELSE [t |-> "sqrt", n |-> x.n, d |-> x.d, s |-> ""]

\* Math.abs(z) > threshold for z = (value - mean) / stdDev as ZScore gives it
AbsExceeds(z, threshold) ==
    CASE z.t = "num" -> Lt(threshold, Num(Abs(z.n)))
      [] z.t = "inf" -> threshold.t = "num"
      [] z.t = "sqrt" -> threshold.t = "num" /\
                         (threshold.n < 0 \/
                          Lt(Mul(threshold, threshold), Frac(Abs(z.n), z.d)))
      [] OTHER -> FALSE

\* The sum of Math.pow(val - mean, 2) over values
RECURSIVE SumSquares(_, _)
SumSquares(values, mean) ==
    IF values = <<>> THEN Num(0)
    ELSE LET val == values[Len(values)]
         IN  Add(SumSquares(SubSeq(values, 1, Len(values) - 1), mean),
                 Mul(Sub(val, mean), Sub(val, mean)))

\* (outliers.length / data.length) * 100
AnomalyRate(count, length) == Mul(Div(Num(count), Num(length)), Num(100))

detectOutliersZScore(recs, field, thresholdArg) ==
    LET threshold == Default(thresholdArg, Num(3))
        values == NumericValues(recs, field)
        mean == Div(SumSeq(values), Num(Len(values)))
        variance == Div(SumSquares(values, mean), Num(Len(values)))
        Flagged(i) ==
            LET value == Get(recs[i], field)
            IN  IsNumber(value) /\ AbsExceeds(ZScore(value, mean, variance), threshold)
        outliers == Positions(Len(recs), Flagged)
    IN  IF Len(values) = 0
        THEN [outliers |-> <<>>, anomalyRate |-> Num(0)]
        ELSE [outliers |-> outliers,
              anomalyRate |-> AnomalyRate(Len(outliers), Len(recs)),
              statistics |-> [mean |-> mean, stdDev |-> Sqrt(variance),
                              threshold |-> threshold]]

\* detectOutliersIQR taking the smallest and the largest value for the
\* quartiles
detectOutliersIQRRange(recs, field, multiplierArg) ==
    LET multiplier == Default(multiplierArg, Frac(3, 2))
        values == SortNumbers(NumericValues(recs, field))
        q1 == values[1]
        q3 == values[Len(values)]
        iqr == Sub(q3, q1)
        lowerBound == Sub(q1, Mul(multiplier, iqr))
        upperBound == Add(q3, Mul(multiplier, iqr))
        Flagged(i) ==
            LET value == Get(recs[i], field)
            IN  IsNumber(value) /\ (Lt(value, lowerBound) \/ Lt(upperBound, value))
        outliers == Positions(Len(recs), Flagged)
    IN  IF Len(values) = 0
        THEN [outliers |-> <<>>, anomalyRate |-> Num(0)]
        ELSE [outliers |-> outliers,
              anomalyRate |-> AnomalyRate(Len(outliers), Len(recs)),
              statistics |-> [q1 |-> q1, q3 |-> q3, iqr |-> iqr,
                              lowerBound |-> lowerBound, upperBound |-> upperBound]]

detectOutliersIQR(recs, field, multiplierArg) ==
    LET multiplier == Default(multiplierArg, Frac(3, 2))
        values == SortNumbers(NumericValues(recs, field))
        q1 == values[(Len(values) \div 4) + 1]
        q3 == values[((3 * Len(values)) \div 4) + 1]
        iqr == Sub(q3, q1)
        lowerBound == Sub(q1, Mul(multiplier, iqr))
        upperBound == Add(q3, Mul(multiplier, iqr))
        Flagged(i) ==
            LET value == Get(recs[i], field)
            IN  IsNumber(value) /\ (Lt(value, lowerBound) \/ Lt(upperBound, value))
        outliers == Positions(Len(recs), Flagged)
    IN  IF Len(values) = 0
        THEN [outliers |-> <<>>, anomalyRate |-> Num(0)]
        ELSE [outliers |-> outliers,
              anomalyRate |-> AnomalyRate(Len(outliers), Len(recs)),
              statistics |-> [q1 |-> q1, q3 |-> q3, iqr |-> iqr,
                              lowerBound |-> lowerBound, upperBound |-> upperBound]]

\* [...new Set(refs)]: each object once, at its first occurrence
RECURSIVE Distinct(_)
Distinct(refs) ==
    IF refs = <<>> THEN <<>>
    ELSE LET front == SubSeq(refs, 1, Len(refs) - 1)
             last == refs[Len(refs)]
         IN  IF \E j \in 1..Len(front) : front[j] = last
             THEN Distinct(front)
             ELSE Append(Distinct(front), last)

\* methods.includes(name)
Includes(methods, name) == \E j \in 1..Len(methods) : methods[j] = name

detectAnomalies(recs, field, options) ==
    LET methods == IF options.methods.has THEN options.methods.val
                   ELSE <<"zscore", "iqr">>
        threshold == Default(options.threshold, Num(3))
        multiplier == Default(options.multiplier, Frac(3, 2))
        zscore == detectOutliersZScore(recs, field, threshold)
        iqr == detectOutliersIQR(recs, field, multiplier)
        pushed == (IF Includes(methods, "zscore") THEN zscore.outliers ELSE <<>>)
                  \o (IF Includes(methods, "iqr") THEN iqr.outliers ELSE <<>>)
        anomalies == Distinct(pushed)
    IN  [anomalies |-> anomalies,
         byMethod |-> [zscore |-> IF Includes(methods, "zscore")
                                  THEN Given(zscore) ELSE Absent,
                       iqr |-> IF Includes(methods, "iqr") THEN Given(iqr) ELSE Absent],
         totalAnomalies |-> Len(anomalies),
         anomalyRate |-> AnomalyRate(Len(anomalies), Len(recs))]

-----------------------------------------------------------------------------
(* Anomaly detection calls on records of one field v.                      *)

PointVals == {Num(1), Num(10), Num(-10), Str("n")}
PointRecords == {<<Prop("v", x)>> : x \in PointVals}

ThresholdArgs == {Undef, Num(1)}
MethodsArgs == {Absent, Given(<<"zscore">>), Given(<<"iqr">>),
                Given(<<"iqr", "zscore">>), Given(<<>>)}
AnomalyOptions ==
    {[methods |-> m, threshold |-> th, multiplier |-> Undef] :
        m \in MethodsArgs, th \in ThresholdArgs}

InitAnomaly ==
    /\ data \in SeqsUpTo(PointRecords, MaxPoints)
    /\ orig = data
    /\ right = <<>>
    /\ call = [op |-> "none"]
    /\ fresh = <<>>
    /\ retRef = "none"
    /\ owned = <<>>
    /\ returned = NoValue

\* The records at the positions refs of the input
Referenced(refs) == [j \in 1..Len(refs) |-> data[refs[j]]]

CallDetectOutliersZScore ==
    \E threshold \in ThresholdArgs :
        LET result == detectOutliersZScore(data, "v", threshold)
        IN  ReturnValue([op |-> "detectOutliersZScore", threshold |-> threshold],
                        Referenced(result.outliers), result)

CallDetectOutliersIQR ==
    \E multiplier \in {Undef, Num(3)} :
        LET result == detectOutliersIQR(data, "v", multiplier)
        IN  ReturnValue([op |-> "detectOutliersIQR", multiplier |-> multiplier],
                        Referenced(result.outliers), result)

CallDetectAnomalies ==
    \E options \in AnomalyOptions :
        LET results == detectAnomalies(data, "v", options)
        IN  ReturnValue([op |-> "detectAnomalies", options |-> options],
                        Referenced(results.anomalies), results)

NextAnomaly ==
    \/ CallDetectOutliersZScore
    \/ CallDetectOutliersIQR
    \/ CallDetectAnomalies

SpecAnomaly == InitAnomaly /\ [][NextAnomaly]_vars

\* The value of input record i
PointValue(i) == Get(orig[i], "v")

\* Input record i holds the one extreme value of the dataset: ten times the
\* value all other records share (the value 1)
IsExtreme(i) ==
    /\ Len(orig) >= 2
    /\ PointValue(i) = Num(10)
    /\ \A j \in 1..Len(orig) : j # i => PointValue(j) = Num(1)

\* The median of a dataset of numbers, doubled (so that it stays an integer)
TwiceMedian ==
    LET values == SortNumbers(NumericValues(orig, "v"))
        n == Len(values)
    IN  IF n % 2 = 1 THEN 2 * values[(n + 1) \div 2].n
        ELSE values[n \div 2].n + values[n \div 2 + 1].n

\* Input record i lies within one IQR of the median
NearMedian(i) ==
    LET iqr == returned.statistics.iqr.n
    IN  /\ 2 * PointValue(i).n >= TwiceMedian - 2 * iqr
        /\ 2 * PointValue(i).n <= TwiceMedian + 2 * iqr

IsOutlier(i) == \E j \in 1..Len(returned.outliers) : returned.outliers[j] = i

\* C15: detectOutliersIQR with multiplier 1.5: for any dataset of any size
\* n >= 2 whose field has one extreme value equal to 10 times the common
\* value of all other records, the extreme record is in the returned
\* outliers list, and no record whose value lies within one IQR of the
\* median is in it.
C15_IQRFlagsExtreme ==
    (call.op = "detectOutliersIQR" /\ call.multiplier = Undef) =>
        \A i \in 1..Len(orig) :
            IsExtreme(i) =>
                /\ IsOutlier(i)
                /\ \A j \in 1..Len(orig) : NearMedian(j) => ~IsOutlier(j)

\* C15 (amended): the same for datasets of at least five records.
C15_IQRFlagsExtremeOfFive ==
    (call.op = "detectOutliersIQR" /\ call.multiplier = Undef) =>
        \A i \in 1..Len(orig) :
            (IsExtreme(i) /\ Len(orig) >= 5) =>
                /\ IsOutlier(i)
                /\ \A j \in 1..Len(orig) : NearMedian(j) => ~IsOutlier(j)

\* Four records of value 1 around one of value 10: only that one is flagged
C15_Witness ==
    /\ call.op = "detectOutliersIQR"
    /\ call.multiplier = Undef
    /\ Len(orig) = 5
    /\ IsExtreme(3)
    /\ PointValue(3) = Num(10)
    /\ returned.outliers = <<3>>
    /\ owned = <<orig[3]>>
    /\ NearMedian(1)
    /\ returned.statistics.iqr = Num(0)

\* The input records a configured method flagged
FlaggedBy(method) ==
    IF method.has
    THEN {method.val.outliers[j] : j \in 1..Len(method.val.outliers)}
    ELSE {}

\* anomalies holds exactly the records flagged by a configured method, each
\* once, and totalAnomalies counts them
AnomaliesAreUnion ==
    LET anomalies == returned.anomalies
    IN  /\ {anomalies[j] : j \in 1..Len(anomalies)}
              = FlaggedBy(returned.byMethod.zscore) \cup FlaggedBy(returned.byMethod.iqr)
        /\ \A a, b \in 1..Len(anomalies) : anomalies[a] = anomalies[b] => a = b
        /\ returned.totalAnomalies = Len(anomalies)
        /\ returned.totalAnomalies <= Len(orig)
        /\ returned.byMethod.zscore.has = (call.options.methods.has =>
                                             Includes(call.options.methods.val, "zscore"))
        /\ returned.byMethod.iqr.has = (call.options.methods.has =>
                                          Includes(call.options.methods.val, "iqr"))

\* C16: detectAnomalies returns in anomalies the union of the records
\* flagged by each configured method (zscore, iqr): every flagged input
\* record appears exactly once even when both methods flag it,
\* totalAnomalies never exceeds the number of input records, and anomalyRate
\* equals totalAnomalies / number of records * 100, so it lies between 0
\* and 100.
C16_AnomaliesUnionAndRate ==
    call.op = "detectAnomalies" =>
        /\ AnomaliesAreUnion
        /\ returned.anomalyRate.t = "num"
        /\ returned.anomalyRate.n * Len(orig)
              = returned.totalAnomalies * 100 * returned.anomalyRate.d
        /\ Le(Num(0), returned.anomalyRate) /\ Le(returned.anomalyRate, Num(100))

\* C16 for datasets of at least one record
C16_UnionAndRateOfNonEmpty ==
    (call.op = "detectAnomalies" /\ Len(orig) >= 1) =>
        /\ AnomaliesAreUnion
        /\ returned.anomalyRate.t = "num"
        /\ returned.anomalyRate.n * Len(orig)
              = returned.totalAnomalies * 100 * returned.anomalyRate.d
        /\ Le(Num(0), returned.anomalyRate) /\ Le(returned.anomalyRate, Num(100))

\* Both methods flag the one record of value 10 among four of value 1, and
\* it is reported once
C16_BothMethodsFlagOneRecord ==
    /\ call.op = "detectAnomalies"
    /\ Len(orig) = 5
    /\ FlaggedBy(returned.byMethod.zscore) = {5}
    /\ FlaggedBy(returned.byMethod.iqr) = {5}
    /\ returned.anomalies = <<5>>
    /\ returned.anomalyRate = Num(20)

-----------------------------------------------------------------------------
(* Trend analysis (analyzers/trends.js).                                   *)

\* x.reduce((sum, xi, i) => sum + xi * y[i], 0)
RECURSIVE SumProducts(_, _)
SumProducts(x, y) ==
    IF x = <<>> THEN Num(0)
    ELSE Add(SumProducts(SubSeq(x, 1, Len(x) - 1), SubSeq(y, 1, Len(y) - 1)),
             Mul(x[Len(x)], y[Len(y)]))

\* y.reduce((sum, yi, i) => sum + Math.pow(yi - (slope * x[i] + intercept), 2), 0)
RECURSIVE SumResiduals(_, _, _, _)
SumResiduals(x, y, slope, intercept) ==
    IF y = <<>> THEN Num(0)
    ELSE LET predicted == Add(Mul(slope, x[Len(y)]), intercept)
             miss == Sub(y[Len(y)], predicted)
         IN  Add(SumResiduals(x, SubSeq(y, 1, Len(y) - 1), slope, intercept),
                 Mul(miss, miss))

calculateLinearRegression(x, y) ==
    LET n == Num(Len(x))
        sumX == SumSeq(x)
        sumY == SumSeq(y)
        sumXY == SumProducts(x, y)
        sumX2 == SumProducts(x, x)
        slope == Div(Sub(Mul(n, sumXY), Mul(sumX, sumY)),
                     Sub(Mul(n, sumX2), Mul(sumX, sumX)))
        intercept == Div(Sub(sumY, Mul(slope, sumX)), n)
        yMean == Div(sumY, n)
        ssTotal == SumSquares(y, yMean)
        ssResidual == SumResiduals(x, y, slope, intercept)
        rSquared == Sub(Num(1), Div(ssResidual, ssTotal))
    IN  [slope |-> slope, intercept |-> intercept, rSquared |-> rSquared]

\* Math.abs(x)
AbsValue(x) == IF x.t = "num" THEN Frac(Abs(x.n), x.d) ELSE x

\* The result of analyzeTrend for the records in the order sorted
TrendOf(sorted, valueField) ==
    LET regression == calculateLinearRegression(
                          [i \in 1..Len(sorted) |-> Num(i - 1)],
                          [i \in 1..Len(sorted) |-> Get(sorted[i], valueField)])
        direction == IF Gt(regression.slope, Num(0)) THEN "increasing"
                     ELSE IF Lt(regression.slope, Num(0)) THEN "decreasing"
                     ELSE "stable"
    IN  [trend |-> direction, slope |-> regression.slope,
         r_squared |-> regression.rSquared,
         strength |-> AbsValue(regression.rSquared)]

InsufficientData == [trend |-> "insufficient_data", direction |-> Null, strength |-> Num(0)]

\* analyzeTrend without the sort: the regression over the array order
analyzeTrendUnsorted(recs, valueField, dateField) ==
    IF Len(recs) < 2 THEN InsufficientData ELSE TrendOf(recs, valueField)

analyzeTrend(recs, valueField, dateField) ==
    IF Len(recs) < 2 THEN InsufficientData
    ELSE TrendOf(SortByDate(recs, dateField), valueField)

-----------------------------------------------------------------------------
(* Trend analysis calls on a dated series.                                 *)

TrendVals == {Num(1), Num(2), Num(3), Num(4)}
TrendRecords == {<<Prop("date", d), Prop("value", v)>> : d \in DateVals, v \in TrendVals}

InitTrend ==
    /\ data \in SeqsUpTo(TrendRecords, MaxLen)
    /\ orig = data
    /\ right = <<>>
    /\ call = [op |-> "none"]
    /\ fresh = <<>>
    /\ retRef = "none"
    /\ owned = <<>>
    /\ returned = NoValue

CallAnalyzeTrend ==
    ReturnValue([op |-> "analyzeTrend", valueField |-> "value", dateField |-> "date"],
                <<>>, analyzeTrend(data, "value", "date"))

NextTrend == CallAnalyzeTrend

SpecTrend == InitTrend /\ [][NextTrend]_vars

\* The values, taken in date order, rise by the same step d from record to
\* record
RisesBy(d) ==
    \A m \in 2..Len(orig) :
        Get(AtRank(m), call.valueField).n - Get(AtRank(m - 1), call.valueField).n = d

\* C17: analyzeTrend: for any dataset of n >= 2 records whose values, taken
\* in date order, form an arithmetic sequence with positive step d, the
\* result has slope d, R-squared 1 and direction 'increasing', whatever
\* order the records were supplied in.
C17_LinearSeriesHasSlopeOfStep ==
    (call.op = "analyzeTrend" /\ Len(orig) >= 2) =>
        \A d \in 1..3 :
            RisesBy(d) =>
                /\ returned.slope = Num(d)
                /\ returned.r_squared = Num(1)
                /\ returned.trend = "increasing"

\* 1, 2, 3 in date order, supplied as 3, 1, 2
C17_Witness ==
    /\ call.op = "analyzeTrend"
    /\ Len(orig) = 3
    /\ orig[1] = <<Prop("date", Str("2026-01-03")), Prop("value", Num(3))>>
    /\ orig[2] = <<Prop("date", Str("2026-01-01")), Prop("value", Num(1))>>
    /\ orig[3] = <<Prop("date", Str("2026-01-02")), Prop("value", Num(2))>>
    /\ RisesBy(1)
    /\ returned.slope = Num(1)
    /\ returned.trend = "increasing"

-----------------------------------------------------------------------------
(* Exporters (exporters/csv.js, excel.js, pdf.js) and                      *)
(* DataExporter.exportToFile (exporter.js).  The file system is the        *)
(* environment of a call: io says whether creating the output directory    *)
(* ("mkdir") or writing the file ("write") fails, or neither ("ok").       *)

\* new Error(message), thrown
Error(message) == [kind |-> "error", message |-> message]

\* The message of the error a failing file-system call raises
IoMessage == "EACCES: permission denied"

\* Object.keys(record)
ObjectKeys(record) == [j \in 1..Len(record) |-> record[j].k]

\* fs.statSync(filepath).size of a file holding a table of rows under a
\* header, counted in cells; base is what the format writes around the table
FileSize(header, rows, base) == base + Len(header) * (rows + 1)

\* path.join(outputDir, filename) for the default output directory ./exports
PathJoin(filename) == "exports/" \o filename

\* CSVExporter.export(data, { filename })
CSVExport(recs, filename, io) ==
    IF io = "mkdir" THEN Error("CSV export failed: " \o IoMessage)
    ELSE IF Len(recs) = 0 THEN Error("CSV export failed: No data to export")
    ELSE IF io = "write" THEN Error("CSV export failed: " \o IoMessage)
    ELSE [kind |-> "receipt", success |-> TRUE, filepath |-> PathJoin(filename),
          rowCount |-> Len(recs),
          size |-> FileSize(ObjectKeys(recs[1]), Len(recs), 0)]

\* ExcelExporter.export(data, { filename }): one sheet 'Data', which
\* addWorksheet leaves out of the workbook when the dataset is empty
ExcelExport(recs, filename, io) ==
    IF io \in {"mkdir", "write"} THEN Error("Excel export failed: " \o IoMessage)
    ELSE [kind |-> "receipt", success |-> TRUE, filepath |-> PathJoin(filename),
          size |-> IF Len(recs) = 0 THEN 1
                   ELSE FileSize(ObjectKeys(recs[1]), Len(recs), 1)]

\* PDFExporter.export(data, { filename }): the title page, and the table
\* when the dataset is not empty; an error of the write stream rejects with
\* the stream's own error
PDFExport(recs, filename, io) ==
    IF io = "mkdir" THEN Error("PDF export failed: " \o IoMessage)
    ELSE IF io = "write" THEN Error(IoMessage)
    ELSE [kind |-> "receipt", success |-> TRUE, filepath |-> PathJoin(filename),
          size |-> IF Len(recs) = 0 THEN 1
                   ELSE FileSize(ObjectKeys(recs[1]), Len(recs), 1)]

\* `${options.filename || dflt}`
FileStem(filename, dflt) == Or(filename, Str(dflt)).s

\* The rethrow of exportToFile's catch block
Rethrown(result) ==
    IF result.kind = "error"
    THEN Error("Export to file failed: " \o result.message)
    ELSE result

exportToFile(format, recs, filename, io) ==
    Rethrown(
        CASE format \in {"excel", "xlsx"} ->
                ExcelExport(recs, FileStem(filename, "export") \o ".xlsx", io)
          [] format = "csv" ->
                CSVExport(recs, FileStem(filename, "export") \o ".csv", io)
          [] format = "pdf" ->
                PDFExport(recs, FileStem(filename, "report") \o ".pdf", io)
          [] OTHER -> Error("Unknown format: " \o format))

-----------------------------------------------------------------------------
(* exportToFile calls.                                                     *)

FormatNames == {"excel", "xlsx", "csv", "pdf", "json"}
FilenameArgs == {Undef, Str("sales")}
IoOutcomes == {"ok", "mkdir", "write"}

InitExport ==
    /\ data \in SeqsUpTo(ApplyRecords, MaxRows)
    /\ orig = data
    /\ right = <<>>
    /\ call = [op |-> "none"]
    /\ fresh = <<>>
    /\ retRef = "none"
    /\ owned = <<>>
    /\ returned = NoValue

CallExportToFile ==
    \E format \in FormatNames, filename \in FilenameArgs, io \in IoOutcomes :
        /\ retRef = "none"
        /\ call' = [op |-> "exportToFile", format |-> format, filename |-> filename,
                    io |-> io]
        /\ returned' = exportToFile(format, data, filename, io)
        /\ retRef' = IF returned'.kind = "error" THEN "threw" ELSE "fresh"
        /\ UNCHANGED <<data, orig, right, fresh, owned>>

NextExport == CallExportToFile

SpecExport == InitExport /\ [][NextExport]_vars

\* C18: exporting an empty dataset is a data error for every output
\* format: exportToFile called with an empty dataset and format csv, excel,
\* xlsx or pdf throws an Error with a specific message and never returns a
\* {success: true, filepath, size} result.
C18_EmptyDatasetThrows ==
    (call.op = "exportToFile" /\ Len(orig) = 0
        /\ call.format \in {"csv", "excel", "xlsx", "pdf"}) =>
        /\ returned.kind = "error"
        /\ retRef = "threw"

\* C18 for the csv format alone
C18_EmptyDatasetThrowsForCsv ==
    (call.op = "exportToFile" /\ Len(orig) = 0 /\ call.format = "csv") =>
        /\ returned.kind = "error"
        /\ retRef = "threw"
        /\ call.io = "ok" =>
              returned.message = "Export to file failed: CSV export failed: No data to export"

-----------------------------------------------------------------------------
(* Source connectors (sources/stripe.js, shopify.js, google-analytics.js,  *)
(* database.js).  A config is the set of keys it gives a usable value for  *)
(* and its type; process.env is the set of variables that are set.  The    *)
(* remote service is the environment of an export: net says whether the    *)
(* request or connection succeeds.                                         *)

\* config[key] || process.env[name] is usable
Credential(config, env, key, name) == key \in config.keys \/ name \in env

\* A connector object; attempts counts the requests and connections made
Connector(source, dbType) ==
    [kind |-> "connector", source |-> source, dbType |-> dbType, attempts |-> 0]

StripeSource(config, env) ==
    IF ~Credential(config, env, "apiKey", "STRIPE_API_KEY")
    THEN Error("STRIPE_API_KEY is required")
    ELSE Connector("stripe", "")

ShopifySource(config, env) ==
    IF ~Credential(config, env, "shopUrl", "SHOPIFY_SHOP_URL")
       \/ ~Credential(config, env, "accessToken", "SHOPIFY_ACCESS_TOKEN")
    THEN Error("SHOPIFY_SHOP_URL and SHOPIFY_ACCESS_TOKEN are required")
    ELSE Connector("shopify", "")

GoogleAnalyticsSource(config, env) ==
    IF ~Credential(config, env, "propertyId", "GA_PROPERTY_ID")
    THEN Error("GA_PROPERTY_ID is required")
    ELSE IF ~Credential(config, env, "credentialsPath", "GA_CREDENTIALS_PATH")
    THEN Error("GA_CREDENTIALS_PATH is required")
    ELSE Connector("google-analytics", "")

DatabaseSource(config, env) ==
    Connector("database", Or(config.type, Str("mysql")).s)

\* new <Source>(config), by the name the CLI knows the source under
NewSource(source, config, env) ==
    CASE source = "stripe" -> StripeSource(config, env)
      [] source = "shopify" -> ShopifySource(config, env)
      [] source = "google-analytics" -> GoogleAnalyticsSource(config, env)
      [] OTHER -> DatabaseSource(config, env)

\* The rows a remote service answers with
RemoteRows == <<<<Prop("date", Str("2026-01-01")), Prop("revenue", Num(3))>>>>

\* The message of the error a failing request or connection raises
NetMessage == "connect ECONNREFUSED"

\* An export that throws before it reaches the remote service
Refused(message) == [outcome |-> Error(message), attempts |-> 0]

\* An export that reaches the remote service: one request or connection,
\* which fails or answers
Fetched(connector, label, type, net) ==
    [outcome |-> IF net = "fails" THEN Error(label \o " export failed: " \o NetMessage)
                 ELSE [kind |-> "exported", success |-> TRUE, data |-> RemoteRows,
                       metadata |-> [source |-> connector.source, type |-> type,
                                     rowCount |-> Len(RemoteRows)]],
     attempts |-> 1]

\* StripeSource.export(options)
StripeExport(connector, options, net) ==
    LET type == Default(options.type, Str("payments")).s
    IN  IF type \in {"payments", "customers", "subscriptions", "charges"}
        THEN Fetched(connector, "Stripe", type, net)
        ELSE Refused("Stripe export failed: Unknown export type: " \o type)

\* ShopifySource.export(options)
ShopifyExport(connector, options, net) ==
    LET type == Default(options.type, Str("orders")).s
    IN  IF type \in {"orders", "products", "customers"}
        THEN Fetched(connector, "Shopify", type, net)
        ELSE Refused("Shopify export failed: Unknown export type: " \o type)

\* GoogleAnalyticsSource.export(options)
GoogleAnalyticsExport(connector, options, net) ==
    Fetched(connector, "Google Analytics", "", net)

\* DatabaseSource.export(options)
DatabaseExport(connector, options, net) ==
    LET type == Default(options.type, Str(connector.dbType)).s
    IN  IF ~Truthy(options.query) THEN Refused("SQL query is required")
        ELSE IF type \in {"mysql", "postgres", "postgresql"}
        THEN Fetched(connector, "Database", type, net)
        ELSE Refused("Database export failed: Unsupported database type: " \o type)

\* sourceInstance.export(options)
SourceExport(connector, options, net) ==
    CASE connector.source = "stripe" -> StripeExport(connector, options, net)
      [] connector.source = "shopify" -> ShopifyExport(connector, options, net)
      [] connector.source = "google-analytics" ->
            GoogleAnalyticsExport(connector, options, net)
      [] OTHER -> DatabaseExport(connector, options, net)

-----------------------------------------------------------------------------
(* Connector construction and export calls.                                *)

SourceNames == {"stripe", "shopify", "google-analytics", "database"}

EnvNames ==
    {"STRIPE_API_KEY", "SHOPIFY_SHOP_URL", "SHOPIFY_ACCESS_TOKEN", "GA_PROPERTY_ID",
     "GA_CREDENTIALS_PATH", "DB_MYSQL_HOST", "DB_MYSQL_USER", "DB_MYSQL_PASSWORD",
     "DB_MYSQL_DATABASE", "DB_POSTGRES_HOST", "DB_POSTGRES_USER", "DB_POSTGRES_PASSWORD",
     "DB_POSTGRES_DATABASE"}

\* The environments: everything set, one variable unset, nothing set
EnvArgs == {EnvNames, {}} \cup {EnvNames \ {name} : name \in EnvNames}

ConfigArgs ==
    {[keys |-> {}, type |-> ty] : ty \in {Undef, Str("mysql"), Str("postgres")}}
    \cup {[keys |-> {"apiKey"}, type |-> Undef],
          [keys |-> {"shopUrl"}, type |-> Undef],
          [keys |-> {"propertyId", "credentialsPath"}, type |-> Undef]}

SourceOptions ==
    {[type |-> ty, query |-> q] :
        ty \in {Undef, Str("customers"), Str("oracle")},
        q \in {Undef, Str("SELECT 1")}}

InitSource ==
    /\ data = <<>>
    /\ orig = data
    /\ right = <<>>
    /\ call = [op |-> "none"]
    /\ fresh = <<>>
    /\ retRef = "none"
    /\ owned = <<>>
    /\ returned = NoValue

\* new <Source>(config) under the environment env
ConstructSource ==
    \E source \in SourceNames, config \in ConfigArgs, env \in EnvArgs :
        /\ retRef = "none"
        /\ call' = [op |-> "new", source |-> source, config |-> config, env |-> env]
        /\ returned' = NewSource(source, config, env)
        /\ retRef' = IF returned'.kind = "error" THEN "threw" ELSE "fresh"
        /\ UNCHANGED <<data, orig, right, fresh, owned>>

\* connector.export(options) on the connector just constructed
CallSourceExport ==
    \E options \in SourceOptions, net \in {"ok", "fails"} :
        LET result == SourceExport(returned, options, net)
        IN  /\ call.op = "new"
            /\ returned.kind = "connector"
            /\ call' = [call EXCEPT !.op = "export"]
            /\ returned' = [kind |-> "export", connector |-> returned,
                            outcome |-> result.outcome, attempts |-> result.attempts]
            /\ retRef' = IF result.outcome.kind = "error" THEN "threw" ELSE "fresh"
            /\ fresh' = IF result.outcome.kind = "error" THEN <<>>
                        ELSE result.outcome.data
            /\ owned' = fresh'
            /\ UNCHANGED <<data, orig, right>>

NextSource ==
    \/ ConstructSource
    \/ CallSourceExport

SpecSource == InitSource /\ [][NextSource]_vars

\* The credentials a source requires, as the environment variables that
\* supply them and the config keys that replace them
Required(source, config) ==
    CASE source = "stripe" -> {<<"apiKey", "STRIPE_API_KEY">>}
      [] source = "shopify" -> {<<"shopUrl", "SHOPIFY_SHOP_URL">>,
                                <<"accessToken", "SHOPIFY_ACCESS_TOKEN">>}
      [] source = "google-analytics" -> {<<"propertyId", "GA_PROPERTY_ID">>,
                                         <<"credentialsPath", "GA_CREDENTIALS_PATH">>}
      [] OTHER ->
            LET prefix == IF Or(config.type, Str("mysql")).s = "mysql"
                          THEN "DB_MYSQL_" ELSE "DB_POSTGRES_"
            IN  {<<"host", prefix \o "HOST">>, <<"user", prefix \o "USER">>,
                 <<"password", prefix \o "PASSWORD">>,
                 <<"database", prefix \o "DATABASE">>}

MissingCredential ==
    \E c \in Required(call.source, call.config) :
        c[1] \notin call.config.keys /\ c[2] \notin call.env

\* C19: every source connector (Google Analytics, Shopify, Stripe,
\* database) raises a configuration error at construction when a required
\* credential or environment variable is missing: before any export call is
\* made and before any network or database connection is attempted.
C19_MissingCredentialFailsConstruction ==
    (call.op \in {"new", "export"} /\ MissingCredential) =>
        /\ call.op = "new"
        /\ returned.kind = "error"
        /\ retRef = "threw"

\* C19 for the three connectors other than the database connector
C19_MissingCredentialFailsApiSources ==
    (call.op \in {"new", "export"} /\ call.source # "database" /\ MissingCredential) =>
        /\ call.op = "new"
        /\ returned.kind = "error"
        /\ retRef = "threw"

\* A database connector built without the host of its engine makes a
\* connection when it is asked to export
C19_DatabaseConnectsWithoutHost ==
    /\ call.op = "export"
    /\ call.source = "database"
    /\ "DB_MYSQL_HOST" \notin call.env
    /\ MissingCredential
    /\ returned.attempts = 1

-----------------------------------------------------------------------------
(* The CLI driver (exporter.js): parseArgs, DataExporter.export,           *)
(* DataExporter.analyze, loadData and main.  A run of main is what the     *)
(* process does from its command line to its exit.                         *)

\* arg.startsWith('--'), and arg.slice(2), for the words of a command line
IsFlag(arg) == arg \in {"--output", "--help"}
FlagKey(arg) == IF arg = "--output" THEN "output" ELSE "help"

\* parseArgs from argument i (1-based) on, given what is parsed so far
RECURSIVE ParseFrom(_, _, _)
ParseFrom(args, i, parsed) ==
    IF i > Len(args) THEN parsed
    ELSE IF IsFlag(args[i])
    THEN IF i + 1 <= Len(args) /\ ~IsFlag(args[i + 1])
         THEN ParseFrom(args, i + 2,
                        [parsed EXCEPT !.options =
                            Put(parsed.options, FlagKey(args[i]), Str(args[i + 1]))])
         ELSE ParseFrom(args, i + 1,
                        [parsed EXCEPT !.options =
                            Put(parsed.options, FlagKey(args[i]), Bool(TRUE))])
    ELSE ParseFrom(args, i + 1,
                   [parsed EXCEPT !.positional = Append(parsed.positional, args[i])])

parseArgs(args) == ParseFrom(args, 1, [positional |-> <<>>, options |-> <<>>])

\* The end of the process: its exit code and the line it printed last
Exit(code, line) == [kind |-> "exit", code |-> code, line |-> line]

\* The catch block of DataExporter.export: the process ends with code 1
ExportFailed(message) == Exit(1, "Export failed: " \o message)

\* The end of DataExporter.export, given what exportToFile returned
Exported(file) ==
    IF file.kind = "error" THEN ExportFailed(file.message)
    ELSE Exit(0, "Exported to: " \o file.filepath)

\* DataExporter.export from the answer of sourceInstance.export on
ExportResult(result, source, options, io) ==
    IF result.outcome.kind = "error" THEN ExportFailed(result.outcome.message)
    ELSE Exported(exportToFile(
             JsString(Or(Or(Get(options, "output"), Get(options, "format")), Str("csv"))),
             result.outcome.data, Str(source \o "-export"), io))

\* DataExporter.export from the constructed connector on
ExportFrom(connector, source, options, net, io) ==
    IF connector.kind = "error" THEN ExportFailed(connector.message)
    ELSE ExportResult(SourceExport(connector,
                                   [type |-> Get(options, "type"),
                                    query |-> Get(options, "query")], net),
                      source, options, io)

\* DataExporter.export(source, options), then the end of main
ExportCommand(source, options, env, net, io) ==
    IF source \notin SourceNames THEN ExportFailed("Unknown source: " \o source)
    ELSE ExportFrom(NewSource(source,
                              [keys |-> {},
                               type |-> IF source = "database"
                                        THEN Or(Get(options, "dbType"), Str("mysql"))
                                        ELSE Undef],
                              env),
                    source, options, net, io)

\* loadData(filepath)
loadData(filepath) == Error("File loading not yet implemented")

\* The first key of record whose value is a number, or undefined
FirstNumericKey(record) ==
    IF \E j \in 1..Len(record) : IsNumber(record[j].v)
    THEN Str(record[CHOOSE j \in 1..Len(record) :
                        /\ IsNumber(record[j].v)
                        /\ \A h \in 1..(j - 1) : ~IsNumber(record[h].v)].k)
    ELSE Undef

\* The first key of record that includes 'date' or 'time', or undefined
FirstDateKey(record) == IF Has(record, "date") THEN Str("date") ELSE Undef

\* sumField(data, field)
sumField(recs, field) == FieldTotal(recs, field)

\* periodOverPeriod(current, previous, metrics), one entry per metric
periodOverPeriod(current, previous, metrics) ==
    [j \in 1..Len(metrics) |->
        LET currentValue == sumField(current, metrics[j])
            previousValue == sumField(previous, metrics[j])
            change == Sub(currentValue, previousValue)
        IN  [metric |-> metrics[j], current |-> currentValue,
             previous |-> previousValue, change |-> change,
             changePercent |-> IF Gt(previousValue, Num(0))
                               THEN Mul(Div(change, previousValue), Num(100))
                               ELSE Num(0),
             trend |-> IF Gt(change, Num(0)) THEN "up"
                       ELSE IF Lt(change, Num(0)) THEN "down" ELSE "stable"]]

\* The switch of DataExporter.analyze on the loaded dataset (options of the
\* command line name no field)
Analysis(recs, analysisType) ==
    CASE analysisType \in {"trend", "comparison", "anomaly"} /\ Len(recs) = 0 ->
            Error("Cannot convert undefined or null to object")
      [] analysisType = "trend" ->
            [kind |-> "results",
             results |-> analyzeTrend(recs, JsString(FirstNumericKey(recs[1])),
                                      JsString(FirstDateKey(recs[1])))]
      [] analysisType = "comparison" ->
            LET midpoint == Len(recs) \div 2
                numeric == SelectSeq(recs[1], LAMBDA p : IsNumber(p.v))
            IN  [kind |-> "results",
                 results |-> periodOverPeriod(SubSeq(recs, midpoint + 1, Len(recs)),
                                              SubSeq(recs, 1, midpoint),
                                              ObjectKeys(numeric))]
      [] analysisType = "anomaly" ->
            [kind |-> "results",
             results |-> detectAnomalies(recs, JsString(FirstNumericKey(recs[1])),
                                         [methods |-> Absent, threshold |-> Undef,
                                          multiplier |-> Undef])]
      [] OTHER -> Error("Unknown analysis type: " \o analysisType)

\* The catch block of DataExporter.analyze: an error ends the process with
\* code 1, the results are returned
AnalysisOutcome(outcome) ==
    IF outcome.kind = "error"
    THEN Exit(1, "Analysis failed: " \o outcome.message)
    ELSE outcome

\* DataExporter.analyze(dataOrFile, analysisType): the results, or the exit
\* of the process from the catch block.  dataOrFile is an array of records
\* or the path of a file.
analyze(dataOrFile, analysisType) ==
    IF dataOrFile.array
    THEN AnalysisOutcome(Analysis(dataOrFile.recs, analysisType))
    ELSE LET loaded == loadData(dataOrFile.path)
         IN  IF loaded.kind = "error" THEN AnalysisOutcome(loaded)
             ELSE AnalysisOutcome(Analysis(loaded.data, analysisType))

\* The end of main's analyze command, given what analyze returned
Analyzed(results) ==
    IF results.kind = "exit" THEN results ELSE Exit(0, "Analysis Results:")

\* The analyze command of main: analyze on the file named on the command
\* line, then the end of main
AnalyzeCommand(file, analysisType) ==
    Analyzed(analyze([array |-> FALSE, path |-> file], analysisType))

\* main() for process.argv.slice(2) = args
main(args, env, net, io) ==
    LET parsed == parseArgs(args)
        positional == parsed.positional
        includesHelp == \E i \in 1..Len(args) : args[i] \in {"help", "--help"}
    IN  IF Len(args) = 0 \/ includesHelp THEN Exit(0, "Usage:")
        ELSE IF Len(positional) >= 1 /\ positional[1] = "export"
        THEN IF Len(positional) < 2 THEN Exit(1, "Source is required")
             ELSE ExportCommand(positional[2], parsed.options, env, net, io)
        ELSE IF Len(positional) >= 1 /\ positional[1] = "analyze"
        THEN IF Len(positional) < 2 THEN Exit(1, "File path is required")
             ELSE AnalyzeCommand(positional[2],
                                 IF Len(positional) >= 3 THEN positional[3] ELSE "trend")
        ELSE Exit(1, "Unknown command: " \o
                     (IF Len(positional) >= 1 THEN positional[1] ELSE "undefined"))

-----------------------------------------------------------------------------
(* Runs of the CLI, and calls of analyze on a dataset in memory.  data is  *)
(* the dataset held by the file data.csv.                                  *)

ArgWords == {"analyze", "export", "help", "data.csv", "trend", "comparison", "anomaly",
             "stripe", "--output", "pdf"}

FileContents ==
    {<<>>,
     <<<<Prop("date", Str("2026-01-02")), Prop("value", Num(2))>>,
       <<Prop("date", Str("2026-01-01")), Prop("value", Num(1))>>>>}

InitCli ==
    /\ data \in FileContents
    /\ orig = data
    /\ right = <<>>
    /\ call = [op |-> "none"]
    /\ fresh = <<>>
    /\ retRef = "none"
    /\ owned = <<>>
    /\ returned = NoValue

\* node scripts/exporter.js <args>, to the end of the process
RunMain ==
    \E args \in SeqsUpTo(ArgWords, MaxArgs), env \in {EnvNames, {}},
       net \in {"ok", "fails"}, io \in {"ok", "write"} :
        /\ retRef = "none"
        /\ call' = [op |-> "main", args |-> args, env |-> env, net |-> net, io |-> io]
        /\ returned' = main(args, env, net, io)
        /\ retRef' = "exited"
        /\ UNCHANGED <<data, orig, right, fresh, owned>>

\* new DataExporter().analyze(data, analysisType) from a program
CallAnalyze ==
    \E analysisType \in {"trend", "comparison", "anomaly", "forecast"} :
        /\ retRef = "none"
        /\ call' = [op |-> "analyze", analysisType |-> analysisType]
        /\ returned' = analyze([array |-> TRUE, recs |-> data], analysisType)
        /\ retRef' = IF returned'.kind = "exit" THEN "exited" ELSE "fresh"
        /\ UNCHANGED <<data, orig, right, fresh, owned>>

NextCli ==
    \/ RunMain
    \/ CallAnalyze

SpecCli == InitCli /\ [][NextCli]_vars

\* The command line `analyze <file> <type>` with one of the three types
AnalyzeCommandLine ==
    /\ call.op = "main"
    /\ Len(call.args) = 3
    /\ call.args[1] = "analyze"
    /\ call.args[2] = "data.csv"
    /\ call.args[3] \in {"trend", "comparison", "anomaly"}

\* C20: the CLI command `analyze <file> <type>` with type trend, comparison
\* or anomaly loads the dataset from the given file, runs the selected
\* analysis on it and the process ends with exit code 0; exit code 1 occurs
\* only when an error is thrown (unknown analysis type, failing analysis).
C20_AnalyzeCommandExitsZero ==
    (AnalyzeCommandLine /\ Len(data) >= 2) =>
        /\ returned.kind = "exit"
        /\ returned.code = 0

\* What the analyze command does instead, whatever the file holds
C20_AnalyzeCommandNeverLoads ==
    AnalyzeCommandLine =>
        returned = Exit(1, "Analysis failed: File loading not yet implemented")

\* The same analysis on the same dataset succeeds when the dataset is
\* handed over in memory
C20_AnalyzeInMemorySucceeds ==
    /\ call.op = "analyze"
    /\ call.analysisType = "trend"
    /\ Len(data) = 2
    /\ returned.kind = "results"
    /\ returned.results.slope = Num(1)

-----------------------------------------------------------------------------
(* The email categorizer (email-workflow-manager, categorizer.js):         *)
(* categorizeEmail, ensureLabel, applyLabel and batchCategorizeEmails.     *)
(* gmail is the mailbox behind the Gmail client: the labels that exist and *)
(* the requests it has received, each with the email being processed when  *)
(* it was issued and whether it succeeded.                                  *)

\* config/categories.json: the categories in the order of the file, each
\* with its keywords
CategoriesConfig ==
    <<[name |-> "Urgent", keywords |-> {"urgent"}],
      [name |-> "Promotional", keywords |-> {"sale"}]>>

\* categorizeEmail(email): the first category of the configuration that
\* matches, or Work
categorizeEmail(email) ==
    IF \E j \in 1..Len(CategoriesConfig) : email.subject \in CategoriesConfig[j].keywords
    THEN CategoriesConfig[CHOOSE j \in 1..Len(CategoriesConfig) :
             /\ email.subject \in CategoriesConfig[j].keywords
             /\ \A h \in 1..(j - 1) : email.subject \notin CategoriesConfig[h].keywords].name
    ELSE "Work"

\* A request the client sends while it processes email, and whether it
\* succeeds
Request(api, email, ok) == [api |-> api, email |-> email, ok |-> ok]

\* The mailbox after it received request
Sent(gmail, request) == [gmail EXCEPT !.requests = Append(@, request)]

\* The id Gmail gives the label of a name
LabelId(name) == "Label_" \o name

\* ensureLabel(gmail, categoryName) while email is processed; fault is the
\* request that fails, if any
ensureLabel(gmail, categoryName, email, fault) ==
    IF fault = "list"
    THEN [gmail |-> Sent(gmail, Request("users.labels.list", email, FALSE)),
          threw |-> TRUE,
          message |-> "Failed to ensure label: " \o NetMessage]
    ELSE IF categoryName \in gmail.labels
    THEN [gmail |-> Sent(gmail, Request("users.labels.list", email, TRUE)),
          threw |-> FALSE, id |-> LabelId(categoryName)]
    ELSE IF fault = "create"
    THEN [gmail |-> Sent(Sent(gmail, Request("users.labels.list", email, TRUE)),
                         Request("users.labels.create", email, FALSE)),
          threw |-> TRUE,
          message |-> "Failed to ensure label: " \o NetMessage]
    ELSE [gmail |-> [Sent(Sent(gmail, Request("users.labels.list", email, TRUE)),
                          Request("users.labels.create", email, TRUE))
                        EXCEPT !.labels = @ \cup {categoryName}],
          threw |-> FALSE, id |-> LabelId(categoryName)]

\* applyLabel(gmail, messageId, labelId, dryRun)
applyLabel(gmail, messageId, labelId, dryRun, fault) ==
    IF dryRun THEN [gmail |-> gmail, threw |-> FALSE]
    ELSE IF fault = "modify"
    THEN [gmail |-> Sent(gmail, Request("users.messages.modify", messageId, FALSE)),
          threw |-> TRUE,
          message |-> "Failed to apply label: " \o NetMessage]
    ELSE [gmail |-> Sent(gmail, Request("users.messages.modify", messageId, TRUE)),
          threw |-> FALSE]

\* The loop of batchCategorizeEmails, were a failed email not recorded
CaughtDropped(st, gmail, email, message) == [st EXCEPT !.gmail = gmail]

\* The catch block of the loop of batchCategorizeEmails
Caught(st, gmail, email, message) ==
    [st EXCEPT !.gmail = gmail,
               !.results.errors = Append(@, [emailId |-> email.id, error |-> message])]

\* The loop body of batchCategorizeEmails from the answer of applyLabel on
Labelled(st, email, category, applied) ==
    IF applied.threw THEN Caught(st, applied.gmail, email, applied.message)
    ELSE [st EXCEPT !.gmail = applied.gmail,
                    !.results.categorized = @ + 1,
                    !.results.byCategory[category] = @ + 1]

\* The loop body of batchCategorizeEmails from the label the cache holds or
\* ensureLabel returned on
Ensured(st, email, category, ensured, dryRun, fault) ==
    IF ensured.threw THEN Caught(st, ensured.gmail, email, ensured.message)
    ELSE Labelled([st EXCEPT !.labelCache[category] = ensured.id],
                  email, category,
                  applyLabel(ensured.gmail, email.id, ensured.id, dryRun, fault))

\* The loop body of batchCategorizeEmails for email
Categorize(st, email, category, dryRun, fault) ==
    Ensured([st EXCEPT !.attempted = Append(@, email.id)], email, category,
            IF st.labelCache[category] # ""
            THEN [gmail |-> st.gmail, threw |-> FALSE, id |-> st.labelCache[category]]
            ELSE ensureLabel(st.gmail, category, email.id, fault),
            dryRun, fault)

\* The names a category can have
CategoryNames == {CategoriesConfig[j].name : j \in 1..Len(CategoriesConfig)} \cup {"Work"}

\* batchCategorizeEmails after the first n emails; faults[j] is the request
\* that fails while email j is processed
RECURSIVE BatchLoop(_, _, _, _, _)
BatchLoop(gmail, emails, dryRun, faults, n) ==
    IF n = 0
    THEN [results |-> [total |-> Len(emails), categorized |-> 0,
                       byCategory |-> [c \in CategoryNames |-> 0], errors |-> <<>>],
          labelCache |-> [c \in CategoryNames |-> ""],
          gmail |-> gmail,
          attempted |-> <<>>]
    ELSE Categorize(BatchLoop(gmail, emails, dryRun, faults, n - 1), emails[n],
                    categorizeEmail(emails[n]), dryRun, faults[n])

\* batchCategorizeEmails(gmail, emails, dryRun): the results, the mailbox
\* and the ids of the emails in the order the loop took them
batchCategorizeEmails(gmail, emails, dryRun, faults) ==
    BatchLoop(gmail, emails, dryRun, faults, Len(emails))

-----------------------------------------------------------------------------
(* Calls of batchCategorizeEmails.  data is the list of emails, as         *)
(* categorizeCommand fetches it: one message per id.                       *)

EmailIds == {"m1", "m2", "m3"}
Subjects == {"urgent", "sale", "hello"}
Emails == [id : EmailIds, subject : Subjects]
FaultNames == {"none", "list", "create", "modify"}

\* No two emails of the list have the same id
UniqueIds(emails) ==
    \A i, j \in 1..Len(emails) : emails[i].id = emails[j].id => i = j

InitBatch ==
    /\ data \in {emails \in SeqsUpTo(Emails, MaxEmails) : UniqueIds(emails)}
    /\ orig = data
    /\ right = <<>>
    /\ call = [op |-> "none"]
    /\ fresh = <<>>
    /\ retRef = "none"
    /\ owned = <<>>
    /\ returned = NoValue

CallBatchCategorizeEmails ==
    \E dryRun \in BOOLEAN, labels \in SUBSET {"Urgent", "Work"},
       faults \in [1..Len(data) -> FaultNames] :
        ReturnValue([op |-> "batchCategorizeEmails", dryRun |-> dryRun,
                     labels |-> labels, faults |-> faults],
                    <<>>,
                    batchCategorizeEmails([labels |-> labels, requests |-> <<>>],
                                          data, dryRun, faults))

NextBatch == CallBatchCategorizeEmails

SpecBatch == InitBatch /\ [][NextBatch]_vars

\* The call of batchCategorizeEmails has returned
Batched == call.op = "batchCategorizeEmails"

\* A request issued while email j was processed failed
FailedEmail(j) ==
    \E r \in 1..Len(returned.gmail.requests) :
        /\ returned.gmail.requests[r].email = data[j].id
        /\ ~returned.gmail.requests[r].ok

\* The number of entries of errors that name email j
ErrorsOf(j) ==
    Cardinality({e \in 1..Len(returned.results.errors) :
                    returned.results.errors[e].emailId = data[j].id})

\* The sum of the counts of byCategory
RECURSIVE SumCounts(_, _)
SumCounts(counts, names) ==
    IF names = {} THEN 0
    ELSE LET c == CHOOSE x \in names : TRUE
         IN  counts[c] + SumCounts(counts, names \ {c})

\* C21: batchCategorizeEmails never aborts on a per-email failure: for any
\* email list and any pattern of failing label lookups, creations and
\* applications, every email is attempted in order, and on return total is
\* the number of emails, categorized + errors.length = total, the
\* byCategory counts add up to categorized, and each failed email id
\* appears exactly once in errors (and no other id appears).
C21_BatchNeverAborts ==
    Batched =>
        /\ returned.attempted = [j \in 1..Len(data) |-> data[j].id]
        /\ returned.results.total = Len(data)
        /\ returned.results.categorized + Len(returned.results.errors)
               = returned.results.total
        /\ SumCounts(returned.results.byCategory, CategoryNames)
               = returned.results.categorized
        /\ \A j \in 1..Len(data) : ErrorsOf(j) = IF FailedEmail(j) THEN 1 ELSE 0

\* A batch whose first email fails and whose second email is labelled
C21_Witness ==
    /\ Batched
    /\ Len(data) >= 2
    /\ FailedEmail(1)
    /\ ~FailedEmail(2)
    /\ returned.results.categorized >= 1
    /\ Len(returned.results.errors) >= 1

\* A request that changes the mailbox
Mutating(request) == request.api \in {"users.messages.modify", "users.labels.create"}

\* C22: dry-run mode makes no changes: when batchCategorizeEmails runs with
\* dryRun set, no mutating Gmail request is issued for any email list and
\* any existing label set: neither users.messages.modify nor
\* users.labels.create is ever called.
C22_DryRunIssuesNoMutation ==
    (Batched /\ call.dryRun) =>
        \A r \in 1..Len(returned.gmail.requests) :
            ~Mutating(returned.gmail.requests[r])

\* What dry-run mode does keep from: no label is applied to a message
C22_DryRunAppliesNoLabel ==
    (Batched /\ call.dryRun) =>
        \A r \in 1..Len(returned.gmail.requests) :
            returned.gmail.requests[r].api # "users.messages.modify"

-----------------------------------------------------------------------------
(* The SEO report generator (seo-audit-pro, report-generator.js):          *)
(* calculateOverallScore.  An audit result holds what the score reads: the *)
(* performance scores, the lengths of the issue and warning lists, the     *)
(* image coverage and the technical flags; a part that is absent is         *)
(* undefined in the code.                                                   *)

\* x || 0 for a length, and x || fallback for a number: an absent value and
\* 0 are falsy
OrNumber(x, fallback) == IF x.has /\ x.val # 0 THEN x.val ELSE fallback

\* Math.round(n / d) for d > 0: the nearest integer, a half rounded up
RoundRatio(n, d) == (2 * n + d) \div (2 * d)

\* The score before it is bounded
RawScore(auditResults) ==
    LET pageSpeed == auditResults.pageSpeed
        metaTags == auditResults.metaTags
        images == auditResults.images
        technical == auditResults.technical
        mobileScore == OrNumber(pageSpeed.mobile, 0)
        desktopScore == OrNumber(pageSpeed.desktop, mobileScore)
        criticalCount == OrNumber(metaTags.issues, 0) + OrNumber(metaTags.headerIssues, 0)
        warningCount == OrNumber(metaTags.warnings, 0)
                        + OrNumber(metaTags.headerWarnings, 0)
                        + (IF images.has THEN OrNumber(images.val.issues, 0) ELSE 0)
        coverage == IF images.has THEN OrNumber(images.val.coverage, 0) ELSE 0
    IN  100
        - (IF mobileScore # 0
           THEN RoundRatio((200 - mobileScore - desktopScore) * 3, 20) ELSE 0)
        - criticalCount * 10
        - warningCount * 5
        - (IF coverage # 0 THEN RoundRatio(100 - coverage, 10) ELSE 0)
        - (IF technical.has /\ ~technical.val.hasSSL THEN 15 ELSE 0)
        - (IF technical.has /\ ~technical.val.hasRobotsTxt THEN 3 ELSE 0)
        - (IF technical.has /\ ~technical.val.hasSitemap THEN 3 ELSE 0)

\* calculateOverallScore, were the score returned as it is
calculateOverallScoreUnbounded(auditResults) == RawScore(auditResults)

\* calculateOverallScore(auditResults)
calculateOverallScore(auditResults) ==
    IF RawScore(auditResults) < 0 THEN 0
    ELSE IF RawScore(auditResults) > 100 THEN 100
    ELSE RawScore(auditResults)

-----------------------------------------------------------------------------
(* Audits of a page and their scores.  data is the audit result; a second  *)
(* audit of the same page finds another mobile performance or another      *)
(* image coverage and everything else as before.                           *)

PerformanceScores == {0, 1, 50, 100}
Coverages == {0, 50, 100}

\* A number, a list, an images result and a technical result that are absent
NoNumber == [has |-> FALSE, val |-> 0]
NoImages == [has |-> FALSE, val |-> [issues |-> NoNumber, coverage |-> NoNumber]]
NoTechnical ==
    [has |-> FALSE, val |-> [hasSSL |-> FALSE, hasRobotsTxt |-> FALSE, hasSitemap |-> FALSE]]

AuditResults ==
    [pageSpeed : [mobile : {NoNumber} \cup {Given(p) : p \in PerformanceScores},
                  desktop : {NoNumber, Given(0), Given(90)}],
     metaTags : [issues : {NoNumber, Given(1), Given(11)},
                 headerIssues : {NoNumber, Given(1)},
                 warnings : {NoNumber, Given(3)},
                 headerWarnings : {NoNumber}],
     images : {NoImages} \cup {Given(i) : i \in [issues : {NoNumber, Given(2)},
                                                coverage : {Given(c) : c \in Coverages}]},
     technical : {NoTechnical} \cup
                 {Given(t) : t \in {[hasSSL |-> TRUE, hasRobotsTxt |-> TRUE, hasSitemap |-> TRUE],
                                    [hasSSL |-> TRUE, hasRobotsTxt |-> FALSE, hasSitemap |-> TRUE],
                                    [hasSSL |-> FALSE, hasRobotsTxt |-> FALSE,
                                     hasSitemap |-> FALSE]}}]

InitScore ==
    /\ data \in AuditResults
    /\ orig = data
    /\ right = <<>>
    /\ call = [op |-> "none"]
    /\ fresh = <<>>
    /\ retRef = "none"
    /\ owned = <<>>
    /\ returned = NoValue

\* generateReport(data): the score of the audit
CallCalculateOverallScore ==
    ReturnValue([op |-> "calculateOverallScore"], <<>>,
                [kind |-> "score", score |-> calculateOverallScore(data)])

\* The page is audited again and its mobile performance is now mobile
AuditMobileAgain ==
    \E mobile \in PerformanceScores :
        /\ data.pageSpeed.mobile.has
        /\ ReturnValue([op |-> "auditAgain", part |-> "mobile", now |-> mobile], <<>>,
                       [kind |-> "scores",
                        before |-> calculateOverallScore(data),
                        after |-> calculateOverallScore(
                            [data EXCEPT !.pageSpeed.mobile = Given(mobile)])])

\* The page is audited again and its image coverage is now coverage
AuditImagesAgain ==
    \E coverage \in Coverages :
        /\ data.images.has
        /\ ReturnValue([op |-> "auditAgain", part |-> "images", now |-> coverage], <<>>,
                       [kind |-> "scores",
                        before |-> calculateOverallScore(data),
                        after |-> calculateOverallScore(
                            [data EXCEPT !.images.val.coverage = Given(coverage)])])

NextScore ==
    \/ CallCalculateOverallScore
    \/ AuditMobileAgain
    \/ AuditImagesAgain

SpecScore == InitScore /\ [][NextScore]_vars

\* C23: the overall SEO score is always an integer in the range 0..100: for
\* every combination of page-speed scores, numbers of critical issues and
\* warnings, image coverage and technical flags (including absent
\* page-speed, image or technical results), calculateOverallScore returns a
\* value s with 0 <= s <= 100.
C23_ScoreWithinBounds ==
    /\ returned.kind = "score" => returned.score \in 0..100
    /\ returned.kind = "scores" => (returned.before \in 0..100 /\ returned.after \in 0..100)

\* An audit with eleven critical issues, whose deductions exceed 100
C23_Witness ==
    /\ returned.kind = "score"
    /\ data.metaTags.issues = Given(11)
    /\ returned.score = 0

\* The value of the part that was audited again, before
Before ==
    IF call.part = "mobile" THEN data.pageSpeed.mobile.val
    ELSE data.images.val.coverage.val

\* C28: the overall SEO score is monotone in its quality inputs: with all
\* other audit results equal, a lower mobile performance score (over the
\* whole range 0..100) or a lower image alt-text coverage (0..100) never
\* yields a higher overall score than a higher one.
C28_ScoreMonotone ==
    (returned.kind = "scores" /\ Before <= call.now) =>
        returned.before <= returned.after

\* The same for scores and coverages above 0
C28_ScoreMonotoneAboveZero ==
    (returned.kind = "scores" /\ 0 < Before /\ Before <= call.now) =>
        returned.before <= returned.after

-----------------------------------------------------------------------------
(* The auto-responder (email-workflow-manager, auto-responder.js):         *)
(* getHeader, shouldAutoReply and sendAutoReply.  A text is a sequence of  *)
(* pieces, each a placeholder {key} or text without braces; a header value *)
(* and a header name are strings, lowered and searched by table.           *)

\* s.toLowerCase(), for the strings headers are made of
ToLowerCase(s) ==
    CASE s = "From" -> "from"
      [] s = "FROM" -> "from"
      [] s = "Subject" -> "subject"
      [] s = "List-Id" -> "list-id"
      [] s = "List-Unsubscribe" -> "list-unsubscribe"
      [] s = "Precedence" -> "precedence"
      [] s = "NoReply@shop.com" -> "noreply@shop.com"
      [] s = "Notification <info@corp.com>" -> "notification <info@corp.com>"
      [] OTHER -> s

\* s.includes(part), for the values of From and the parts looked for
StrIncludes(s, part) ==
    part \in (CASE s = "noreply@shop.com" -> {"noreply", "shop.com"}
                [] s = "NoReply@shop.com" -> {"shop.com"}
                [] s = "notification <info@corp.com>" -> {"notification", "corp.com"}
                [] s = "Notification <info@corp.com>" -> {"corp.com"}
                [] s = "ann@corp.com" -> {"corp.com"}
                [] OTHER -> {})

\* getHeader(headers, name): the value of the first header of that name,
\* whatever its letter case, or null (the empty string here, as every use
\* treats both alike)
getHeader(headers, name) ==
    IF \E j \in 1..Len(headers) : ToLowerCase(headers[j].name) = ToLowerCase(name)
    THEN headers[CHOOSE j \in 1..Len(headers) :
             /\ ToLowerCase(headers[j].name) = ToLowerCase(name)
             /\ \A h \in 1..(j - 1) :
                    ToLowerCase(headers[h].name) # ToLowerCase(name)].value
    ELSE ""

automatedPatterns ==
    {"noreply", "no-reply", "donotreply", "do-not-reply", "automated", "notification"}

listHeaders == {"List-Id", "List-Unsubscribe", "Precedence"}

\* shouldAutoReply(email, rules) for the headers of email; isFromContact
\* returns true
shouldAutoReply(headers, rules) ==
    /\ ~\E pattern \in automatedPatterns :
            StrIncludes(ToLowerCase(getHeader(headers, "From")), pattern)
    /\ ~\E header \in listHeaders, j \in 1..Len(headers) : headers[j].name = header
    /\ (rules.domainRestriction # "" =>
            StrIncludes(getHeader(headers, "From"), rules.domainRestriction))

\* A placeholder {key} and a piece of text
Placeholder(key) == [ph |-> TRUE, s |-> key]
Text(s) == [ph |-> FALSE, s |-> s]

\* text.replace(`{${key}}`, value): the first occurrence is replaced
Replace(text, key, value) ==
    IF \E j \in 1..Len(text) : text[j] = Placeholder(key)
    THEN [text EXCEPT ![CHOOSE j \in 1..Len(text) :
                           /\ text[j] = Placeholder(key)
                           /\ \A h \in 1..(j - 1) : text[h] # Placeholder(key)]
                        = Text(value)]
    ELSE text

\* The loop of sendAutoReply over the first n entries of variables
RECURSIVE ReplaceVariables(_, _, _)
ReplaceVariables(text, variables, n) ==
    IF n = 0 THEN text
    ELSE Replace(ReplaceVariables(text, variables, n - 1),
                 variables[n].key, variables[n].value)

\* subject || 'Your email'
OrYourEmail(subject) == IF subject = "" THEN "Your email" ELSE subject

\* sendAutoReply(gmail, messageId, templateName, variables): the subject and
\* the body of the reply it sends, or the error it throws.  headers are the
\* headers of the message, templates the templates of config/templates.json,
\* fault the request that fails, if any.
sendAutoReply(headers, templates, templateName, variables, fault) ==
    IF fault = "get" THEN Error("Failed to send auto-reply: " \o NetMessage)
    ELSE IF getHeader(headers, "From") = ""
    THEN Error("Failed to send auto-reply: Cannot find sender address")
    ELSE IF templateName \notin DOMAIN templates
    THEN Error("Failed to send auto-reply: Template '" \o templateName \o "' not found")
    ELSE IF fault = "send" THEN Error("Failed to send auto-reply: " \o NetMessage)
    ELSE [kind |-> "sent",
          to |-> getHeader(headers, "From"),
          subject |-> ReplaceVariables(
              Replace(templates[templateName].subject, "original_subject",
                      OrYourEmail(getHeader(headers, "Subject"))),
              variables, Len(variables)),
          body |-> ReplaceVariables(
              Replace(templates[templateName].body, "original_subject",
                      OrYourEmail(getHeader(headers, "Subject"))),
              variables, Len(variables))]

-----------------------------------------------------------------------------
(* Calls of shouldAutoReply and sendAutoReply.  data holds the headers of  *)
(* the email; the templates are those of a configuration the user edited.  *)

FromValues == {"noreply@shop.com", "NoReply@shop.com", "Notification <info@corp.com>",
               "ann@corp.com"}
FromNames == {"From", "FROM"}
ListNames == {"List-Id", "list-id", "Precedence"}

\* The headers of an email: From, Subject and a mailing-list header, each
\* present or not
HeaderLists ==
    {from \o subject \o list :
        from \in {<<>>} \cup {<<[name |-> n, value |-> v]>> : n \in FromNames, v \in FromValues},
        subject \in {<<>>, <<[name |-> "Subject", value |-> "Invoice"]>>},
        list \in {<<>>} \cup {<<[name |-> n, value |-> "x"]>> : n \in ListNames}}

Pieces == {Text("Hi "), Placeholder("name"), Placeholder("original_subject")}

Templates ==
    {[custom |-> [subject |-> subject, body |-> text]] :
        subject \in {<<Text("Re: "), Placeholder("original_subject")>>,
                     <<Placeholder("name"), Placeholder("original_subject")>>},
        text \in SeqsUpTo(Pieces, MaxPieces)}

VariablesArgs ==
    {<<>>,
     <<[key |-> "name", value |-> "Ann"]>>,
     <<[key |-> "name", value |-> "Ann"], [key |-> "original_subject", value |-> "it"]>>}

InitReply ==
    /\ data \in HeaderLists
    /\ orig = data
    /\ right = <<>>
    /\ call = [op |-> "none"]
    /\ fresh = <<>>
    /\ retRef = "none"
    /\ owned = <<>>
    /\ returned = NoValue

CallShouldAutoReply ==
    \E domainRestriction \in {"", "corp.com"}, onlyContacts \in BOOLEAN :
        ReturnValue([op |-> "shouldAutoReply",
                     rules |-> [onlyContacts |-> onlyContacts,
                                domainRestriction |-> domainRestriction]],
                    <<>>,
                    [kind |-> "decision",
                     reply |-> shouldAutoReply(data, [onlyContacts |-> onlyContacts,
                                                      domainRestriction |-> domainRestriction])])

CallSendAutoReply ==
    \E templates \in Templates, templateName \in {"custom", "vacation"},
       variables \in VariablesArgs, fault \in {"none", "get", "send"} :
        ReturnValue([op |-> "sendAutoReply", templates |-> templates,
                     templateName |-> templateName, variables |-> variables,
                     fault |-> fault],
                    <<>>,
                    sendAutoReply(data, templates, templateName, variables, fault))

NextReply ==
    \/ CallShouldAutoReply
    \/ CallSendAutoReply

SpecReply == InitReply /\ [][NextReply]_vars

\* text holds no placeholder of a key of variables
NoPlaceholderOf(text, variables) ==
    \A j \in 1..Len(text), v \in 1..Len(variables) :
        text[j] # Placeholder(variables[v].key)

\* Every piece of text of template stands unchanged in result
TextUnchanged(template, result) ==
    /\ Len(result) = Len(template)
    /\ \A j \in 1..Len(template) : ~template[j].ph => result[j] = template[j]

\* C24: template variable replacement substitutes every supplied variable:
\* for any template and any variables map whose values contain no
\* placeholders, the resulting text contains no occurrence of {key} for any
\* key of the map, and text outside placeholders is unchanged, for the
\* subject and the body built by sendAutoReply.
C24_EveryVariableReplaced ==
    (call.op = "sendAutoReply" /\ returned.kind = "sent") =>
        /\ NoPlaceholderOf(returned.subject, call.variables)
        /\ NoPlaceholderOf(returned.body, call.variables)
        /\ TextUnchanged(call.templates.custom.subject, returned.subject)
        /\ TextUnchanged(call.templates.custom.body, returned.body)

\* No placeholder stands twice in text
OncePerKey(text) ==
    \A i, j \in 1..Len(text) : (text[i].ph /\ text[i] = text[j]) => i = j

\* The same for templates that use each placeholder once
C24_EveryVariableReplacedOnce ==
    (/\ call.op = "sendAutoReply"
     /\ returned.kind = "sent"
     /\ OncePerKey(call.templates.custom.subject)
     /\ OncePerKey(call.templates.custom.body)) =>
        /\ NoPlaceholderOf(returned.subject, call.variables)
        /\ NoPlaceholderOf(returned.body, call.variables)
        /\ TextUnchanged(call.templates.custom.subject, returned.subject)
        /\ TextUnchanged(call.templates.custom.body, returned.body)

\* The email comes from an automated sender
AutomatedSender ==
    \E pattern \in automatedPatterns :
        StrIncludes(ToLowerCase(getHeader(data, "From")), pattern)

\* The email carries a mailing-list header, in whatever letter case
CarriesListHeader ==
    \E j \in 1..Len(data) :
        ToLowerCase(data[j].name) \in {"list-id", "list-unsubscribe", "precedence"}

\* C29: shouldAutoReply never approves a reply to automated mail: it
\* returns false for every email whose From value contains one of the
\* automated-sender patterns (compared case-insensitively) and for every
\* email that carries a List-Id, List-Unsubscribe or Precedence header,
\* whatever the letter case of the header name.
C29_NoReplyToAutomatedMail ==
    (call.op = "shouldAutoReply" /\ (AutomatedSender \/ CarriesListHeader)) =>
        ~returned.reply

\* The same for list headers spelled as in the code
C29_NoReplyToAutomatedMailExactCase ==
    (/\ call.op = "shouldAutoReply"
     /\ \/ AutomatedSender
        \/ \E j \in 1..Len(data) : data[j].name \in listHeaders) =>
        ~returned.reply

-----------------------------------------------------------------------------
(* Change point detection (analyzers/anomaly.js): detectChangePoints.  The *)
(* numbers of a dataset count a unit.  With the unit 1 the doubles the     *)
(* function computes are exact; with the unit 2^-1074, the smallest        *)
(* double, sums, differences and products by a small integer are exact too *)
(* and a division by 2 rounds a half to the even neighbour.                *)

\* n / 2 for n >= 0 of the smallest double, rounded to nearest, ties to even
HalfToEven(n) ==
    IF n % 2 = 0 THEN n \div 2
    ELSE IF ((n - 1) \div 2) % 2 = 0 THEN (n - 1) \div 2
    ELSE (n + 1) \div 2

\* (change1 + change2) / 2
Halved(sum, unit) ==
    IF unit = "smallest" /\ sum.t = "num" THEN Num(HalfToEven(sum.n))
    ELSE Div(sum, Num(2))

\* The entry of changes for index i (0-based) of the loop, or no entry
ChangeAt(recs, field, sensitivity, unit, i) ==
    LET prev == Get(recs[i], field)
        curr == Get(recs[i + 1], field)
        next == Get(recs[i + 2], field)
        change1 == AbsValue(Sub(curr, prev))
        change2 == AbsValue(Sub(next, curr))
        threshold == Mul(Halved(Add(change1, change2), unit), sensitivity)
    IN  IF ~IsNumber(prev) \/ ~IsNumber(curr) \/ ~IsNumber(next) THEN <<>>
        ELSE IF Gt(change1, threshold) \/ Gt(change2, threshold)
        THEN <<[index |-> i,
                magnitude |-> IF Gt(change2, change1) THEN change2 ELSE change1,
                direction |-> IF Gt(curr, prev) THEN "increase" ELSE "decrease"]>>
        ELSE <<>>

\* changes after the loop has run up to index i (0-based)
RECURSIVE ChangesUpTo(_, _, _, _, _)
ChangesUpTo(recs, field, sensitivity, unit, i) ==
    IF i < 1 THEN <<>>
    ELSE ChangesUpTo(recs, field, sensitivity, unit, i - 1)
             \o ChangeAt(recs, field, sensitivity, unit, i)

\* The object detectChangePoints returns for changes
ChangePoints(changes) == [changePoints |-> changes, count |-> Len(changes)]

\* detectChangePoints, were the threshold the average change itself
detectChangePointsOfAverage(recs, field, sensitivityArg, unit) ==
    IF Len(recs) < 3 THEN [changePoints |-> <<>>]
    ELSE ChangePoints(ChangesUpTo(recs, field, Num(1), unit, Len(recs) - 2))

\* detectChangePoints(data, field, sensitivity)
detectChangePoints(recs, field, sensitivityArg, unit) ==
    IF Len(recs) < 3 THEN [changePoints |-> <<>>]
    ELSE ChangePoints(ChangesUpTo(recs, field, Default(sensitivityArg, Num(2)), unit,
                                  Len(recs) - 2))

-----------------------------------------------------------------------------
(* Calls of detectChangePoints on the datasets of the anomaly detectors.   *)

SensitivityArgs == {Undef, Num(1), Num(2), Num(3)}
Units == {"one", "smallest"}

InitChange ==
    /\ data \in SeqsUpTo(PointRecords, MaxPoints)
    /\ orig = data
    /\ right = <<>>
    /\ call = [op |-> "none"]
    /\ fresh = <<>>
    /\ retRef = "none"
    /\ owned = <<>>
    /\ returned = NoValue

CallDetectChangePoints ==
    \E sensitivity \in SensitivityArgs, unit \in Units :
        ReturnValue([op |-> "detectChangePoints", sensitivity |-> sensitivity,
                     unit |-> unit],
                    <<>>, detectChangePoints(data, "v", sensitivity, unit))

NextChange == CallDetectChangePoints

SpecChange == InitChange /\ [][NextChange]_vars

\* detectChangePoints was called with a sensitivity of 2 or more, or none
SensitivityAtLeastTwo ==
    /\ call.op = "detectChangePoints"
    /\ ~Lt(Default(call.sensitivity, Num(2)), Num(2))

C26_SensitivityOneReports ==
    /\ call.op = "detectChangePoints"
    /\ call.sensitivity = Num(1)
    /\ call.unit = "one"
    /\ Len(returned.changePoints) >= 1

-----------------------------------------------------------------------------
(* A dataset cleaned by removeOutliers (cleaner.js) and examined by        *)
(* detectOutliersIQR (anomaly.js) with the same field and multiplier.  A   *)
(* NaN stands in a dataset of its own, where the sort compares nothing.    *)

OutlierDatasets ==
    SeqsUpTo(PointRecords, MaxPoints) \cup {<<<<Prop("v", NaN)>>>>}

InitOutlier ==
    /\ data \in OutlierDatasets
    /\ orig = data
    /\ right = <<>>
    /\ call = [op |-> "none"]
    /\ fresh = <<>>
    /\ retRef = "none"
    /\ owned = <<>>
    /\ returned = NoValue

\* removeOutliers(data, 'v', multiplier) and
\* detectOutliersIQR(data, 'v', multiplier)
CallRemoveAndDetect ==
    \E multiplier \in {Undef, Num(0), Num(3)} :
        ReturnValue([op |-> "removeOutliers, detectOutliersIQR",
                     multiplier |-> multiplier],
                    removeOutliers(data, "v", multiplier).recs,
                    [kind |-> "outliers",
                     kept |-> removeOutliers(data, "v", multiplier),
                     report |-> detectOutliersIQR(data, "v", multiplier)])

NextOutlier == CallRemoveAndDetect

SpecOutlier == InitOutlier /\ [][NextOutlier]_vars

\* Record i of the dataset is among the records removeOutliers returned
KeptByRemove(i) ==
    \E j \in 1..Len(returned.kept.recs) : returned.kept.recs[j] = data[i]

\* Record i of the dataset is among the outliers detectOutliersIQR lists
ListedByDetect(i) ==
    \E j \in 1..Len(returned.report.outliers) : returned.report.outliers[j] = i

\* C27: removeOutliers and detectOutliersIQR are complementary: for any
\* dataset, field and multiplier, every record whose field value is numeric
\* is either kept by removeOutliers or listed in the outliers of
\* detectOutliersIQR, never both and never neither; records with a
\* non-numeric field value are in neither result.
C27_RemoveAndDetectComplementary ==
    returned.kind = "outliers" =>
        \A i \in 1..Len(data) :
            IF IsNumber(Get(data[i], "v"))
            THEN KeptByRemove(i) # ListedByDetect(i)
            ELSE ~KeptByRemove(i) /\ ~ListedByDetect(i)

\* The same for datasets that hold a numeric value and no NaN
C27_ComplementaryAmongNumbers ==
    (/\ returned.kind = "outliers"
     /\ \E i \in 1..Len(data) : Get(data[i], "v").t = "num"
     /\ \A i \in 1..Len(data) : Get(data[i], "v").t # "nan") =>
        \A i \in 1..Len(data) :
            IF IsNumber(Get(data[i], "v"))
            THEN KeptByRemove(i) # ListedByDetect(i)
            ELSE ~KeptByRemove(i) /\ ~ListedByDetect(i)

\* A record that is NaN is dropped by removeOutliers and not listed by
\* detectOutliersIQR
C27_NaNInNeither ==
    /\ returned.kind = "outliers"
    /\ Len(data) = 1
    /\ Get(data[1], "v") = NaN
    /\ ~KeptByRemove(1)
    /\ ~ListedByDetect(1)

\* An outlier is listed by the one and dropped by the other
C27_OutlierListedAndDropped ==
    /\ returned.kind = "outliers"
    /\ \E i \in 1..Len(data) : ListedByDetect(i) /\ ~KeptByRemove(i)

-----------------------------------------------------------------------------
(* The application tracker (job-application, track-application.sh):        *)
(* add_application, update_status and add_interview on the database.       *)
(* data is the database: its three tables, the clock that stamps           *)
(* created_at (in seconds) and the number of commands run so far.          *)

\* The database init_db creates
EmptyDb ==
    [applications |-> <<>>, status_history |-> <<>>, interview_schedule |-> <<>>,
     clock |-> 0, commands |-> 0]

\* The rows of applications for company
RowsOf(db, company) ==
    {a \in 1..Len(db.applications) : db.applications[a].company = company}

\* SELECT id ... WHERE company = '$company' ORDER BY created_at DESC LIMIT 1:
\* the rows the query may return, one of those created last
LatestOf(db, company) ==
    {a \in RowsOf(db, company) :
        \A b \in RowsOf(db, company) :
            db.applications[b].created_at <= db.applications[a].created_at}

\* The exit of the script and the line it printed last
ScriptExit(code, line) == [kind |-> "exit", code |-> code, line |-> line]

\* A command of the script has run on the database
Ran(c, db, exit) ==
    /\ data.commands < MaxCommands
    /\ call' = c
    /\ data' = [db EXCEPT !.commands = @ + 1]
    /\ returned' = exit
    /\ UNCHANGED <<orig, right, fresh, retRef, owned>>

\* add_application company job_title [status]; elapsed is the time since
\* the command before, in seconds
add_application(db, company, status, elapsed) ==
    [db EXCEPT !.clock = @ + elapsed,
               !.applications =
                   Append(@, [id |-> Len(@) + 1, company |-> company,
                              status |-> status, created_at |-> db.clock + elapsed])]

\* update_status for the row id the query returned
update_status(db, id, new_status) ==
    [db EXCEPT !.applications[id].status = new_status,
               !.status_history =
                   Append(@, [application_id |-> id,
                              old_status |-> db.applications[id].status,
                              new_status |-> new_status])]

\* add_interview for the row id the query returned
add_interview(db, id, interview_date) ==
    [db EXCEPT !.interview_schedule =
                   Append(@, [application_id |-> id, interview_date |-> interview_date,
                              interview_type |-> "Phone Screen"]),
               !.applications[id].status = "Interview Scheduled"]

-----------------------------------------------------------------------------
(* Runs of track-application.sh, one command after the other.              *)

Companies == {"Acme", "Bolt"}
StatusArgs == {"Applied", "In Review", "Rejected"}

InitTracker ==
    /\ data = EmptyDb
    /\ orig = <<>>
    /\ right = <<>>
    /\ call = [op |-> "none"]
    /\ fresh = <<>>
    /\ retRef = "none"
    /\ owned = <<>>
    /\ returned = NoValue

\* track-application.sh add <company> <job_title> [status]
RunAdd ==
    \E company \in Companies, status \in {"Applied", "In Review"}, elapsed \in {0, 1} :
        Ran([op |-> "add", company |-> company, status |-> status],
            add_application(data, company, status, elapsed),
            ScriptExit(0, "Added application: " \o company))

\* track-application.sh update <company> <new_status>
RunUpdate ==
    \E company \in Companies, new_status \in StatusArgs :
        IF RowsOf(data, company) = {}
        THEN Ran([op |-> "update", company |-> company, new_status |-> new_status],
                 data,
                 ScriptExit(1, "Error: No application found for company '"
                               \o company \o "'"))
        ELSE \E id \in LatestOf(data, company) :
                Ran([op |-> "update", company |-> company, new_status |-> new_status],
                    update_status(data, id, new_status),
                    ScriptExit(0, "Updated " \o company))

\* track-application.sh interview <company> <date>
RunInterview ==
    \E company \in Companies :
        IF RowsOf(data, company) = {}
        THEN Ran([op |-> "interview", company |-> company],
                 data,
                 ScriptExit(1, "Error: No application found for company '"
                               \o company \o "'"))
        ELSE \E id \in LatestOf(data, company) :
                Ran([op |-> "interview", company |-> company],
                    add_interview(data, id, "2026-07-01"),
                    ScriptExit(0, "Added interview for " \o company))

NextTracker ==
    \/ RunAdd
    \/ RunUpdate
    \/ RunInterview

SpecTracker == InitTracker /\ [][NextTracker]_vars

\* The entries of status_history for application id, oldest first
HistoryOf(id) ==
    SelectSeq(data.status_history, LAMBDA h : h.application_id = id)

\* The status of every application with history entries is the new_status
\* of its most recent entry, and every entry starts from the status the
\* entry before it led to
HistoryComplete ==
    \A id \in 1..Len(data.applications) :
        HistoryOf(id) # <<>> =>
            /\ data.applications[id].status
                   = HistoryOf(id)[Len(HistoryOf(id))].new_status
            /\ \A k \in 2..Len(HistoryOf(id)) :
                   HistoryOf(id)[k].old_status = HistoryOf(id)[k - 1].new_status

\* C30: application tracker status history is complete: after any sequence
\* of add, update and interview commands every change of an application's
\* status is recorded in status_history, so for every application that has
\* history entries its current status equals the new_status of its most
\* recent entry, and each entry's old_status equals the status the
\* application had just before that change.
C30_StatusHistoryComplete ==
    call.op \in {"add", "update", "interview"} => HistoryComplete

\* The same as long as no interview has been added
C30_CompleteWithoutInterviews ==
    (call.op \in {"add", "update", "interview"} /\ data.interview_schedule = <<>>) =>
        HistoryComplete

====
